---- MODULE Spec2Model ----
(***************************************************************************)
(* Model of the transactional loader of extract_to_neo4j.py                *)
(* (batch_process_files) together with the parts of the graph builder      *)
(* (extract_entities_and_relationships), the validator                     *)
(* (validate_node_data) and the graph store (py2neo Graph / Transaction)   *)
(* that decide what is persisted.                                          *)
(*                                                                         *)
(* Strings are sequences of one-character strings so that strip(), len()   *)
(* and the date regex are computed, not assumed.                           *)
(***************************************************************************)
EXTENDS Integers, Sequences, FiniteSets, TLC

\* ------------------------------------------------------------------------
\* Bounds of the model
\* ------------------------------------------------------------------------
MaxRuns == 2
MaxFiles == 2
MaxFaults == 1
MaxReloads == 1
BigRels == 51

\* ------------------------------------------------------------------------
\* Program constants
\* ------------------------------------------------------------------------
sub_batch_size == 50

\* ------------------------------------------------------------------------
\* Strings
\* ------------------------------------------------------------------------
Digits == {"0", "1", "2", "3", "4", "5", "6", "7", "8", "9"}
Whitespace == {" ", "\n", "\t"}

EmptyStr == << >>
T_Sync == <<"S", "y", "n", "c">>
T_Plan == <<"P", "l", "a", "n">>
T_X == <<" ", "X">>
C_Agenda == <<"a", "g", "e", "n", "d", "a">>
C_Text == <<"t", "e", "x", "t">>
N_Alice == <<"A", "l", "i", "c", "e">>
N_Bob == <<"B", "o", "b">>
D_Approved == <<"A", "p", "p", "r", "o", "v", "e", "d", " ", "Q", "3">>
Date_ISO == <<"2", "0", "2", "4", "-", "0", "5", "-", "0", "1">>
Date_DMY == <<"0", "5", "-", "0", "1", "-", "2", "0", "2", "4">>
NoneVal == <<"None">>

\* str.strip(): drop leading and trailing whitespace
RECURSIVE LStrip(_)
LStrip(s) ==
    IF s = << >> THEN s
    ELSE IF Head(s) \in Whitespace THEN LStrip(Tail(s)) ELSE s

RECURSIVE RStrip(_)
RStrip(s) ==
    IF s = << >> THEN s
    ELSE IF s[Len(s)] \in Whitespace THEN RStrip(SubSeq(s, 1, Len(s) - 1)) ELSE s

Strip(s) == RStrip(LStrip(s))

\* str.lower() on ASCII letters
UpperLetters == <<"A", "B", "C", "D", "E", "F", "G", "H", "I", "J", "K", "L", "M", "N", "O", "P", "Q", "R", "S", "T", "U", "V", "W", "X", "Y", "Z">>
LowerLetters == <<"a", "b", "c", "d", "e", "f", "g", "h", "i", "j", "k", "l", "m", "n", "o", "p", "q", "r", "s", "t", "u", "v", "w", "x", "y", "z">>

LowerChar(c) ==
    IF \E i \in 1..Len(UpperLetters) : UpperLetters[i] = c
    THEN LowerLetters[CHOOSE i \in 1..Len(UpperLetters) : UpperLetters[i] = c]
    ELSE c

Lower(s) == [i \in 1..Len(s) |-> LowerChar(s[i])]

\* re.match(r'^\d{4}-\d{2}-\d{2}$', s): '$' also matches before one
\* trailing newline
DateShape(s) ==
    /\ Len(s) >= 10
    /\ \A i \in {1, 2, 3, 4, 6, 7, 9, 10} : s[i] \in Digits
    /\ s[5] = "-"
    /\ s[8] = "-"

MatchesDateRegex(s) ==
    \/ Len(s) = 10 /\ DateShape(s)
    \/ Len(s) = 11 /\ DateShape(s) /\ s[11] = "\n"

\* ------------------------------------------------------------------------
\* In-memory nodes (py2neo Node): a set of labels and a property map.
\* Setting a property to None leaves the key absent.
\* ------------------------------------------------------------------------
Has(node, key) == key \in DOMAIN node.props

\* node.get(field) is truthy: present and not the empty string
Truthy(node, key) == Has(node, key) /\ node.props[key] # EmptyStr

MkNode(labels, props) == [labels |-> labels, props |-> props]

\* required_fields of validate_node_data
RequiredField(label) ==
    CASE label = "Document" -> "title"
      [] label \in {"Person", "Module", "Service", "Team", "Process",
                    "Topic", "BusinessObject"} -> "name"
      [] label = "Date" -> "value"
      [] label \in {"Decision", "ActionItem"} -> "text"
      [] OTHER -> "-"

TextFields == {"title", "content", "text", "name"}

MissingRequired(node) ==
    \E label \in node.labels :
        /\ RequiredField(label) # "-"
        /\ ~Truthy(node, RequiredField(label))

BadDate(node) == Has(node, "date") /\ ~MatchesDateRegex(node.props["date"])

TooShort(node) ==
    \E f \in TextFields : Has(node, f) /\ Len(Strip(node.props[f])) < 2

\* the validator without the check of the date format
validate_node_data_NoDateCheck(node) ==
    IF MissingRequired(node) THEN "missing"
    ELSE IF TooShort(node) THEN "short"
    ELSE "ok"

\* validate_node_data: the error it returns, "ok" when (True, None)
validate_node_data(node) ==
    IF MissingRequired(node) THEN "missing"
    ELSE IF BadDate(node) THEN "date"
    ELSE IF TooShort(node) THEN "short"
    ELSE "ok"

\* the id computed from the stripped title in the case it was written in
generate_meeting_id_KeepsCase(title, date) ==
    <<"md5">> \o Strip(title) \o <<"_">> \o (IF date = NoneVal THEN EmptyStr ELSE date)

\* generate_meeting_id: md5 of "<title.strip().lower()>_<date or ''>";
\* the digest is modelled as an injective tag on the hashed string
generate_meeting_id(title, date) ==
    <<"md5">> \o Lower(Strip(title)) \o <<"_">> \o (IF date = NoneVal THEN EmptyStr ELSE date)

\* ------------------------------------------------------------------------
\* Input files.  A file is the JSON document together with what the text
\* heuristics find in it: whether json.load succeeds, the title, the
\* content, history.createdBy.displayName, the verdict of is_meeting_note /
\* classify_document_type, the participant list, the decision list, the
\* date found in the title, and the number of relationships that
\* extract_relationships_from_content finds between the author and the
\* document.  `followup` is the text that the content carries
\* after "follow-up to" (None when there is none) with the date that
\* extract_date_from_title finds in it.
\* ------------------------------------------------------------------------
MkFile(parses, title, content, author, meeting, participants, decisions, date, nrel) ==
    [parses |-> parses, title |-> title, content |-> content, author |-> author,
     meeting |-> meeting, participants |-> participants, decisions |-> decisions,
     date |-> date, nrel |-> nrel, followup |-> [text |-> NoneVal, date |-> NoneVal]]

F_SyncMeeting == MkFile(TRUE, T_Sync, C_Agenda, NoneVal, TRUE, <<N_Alice>>, <<D_Approved>>, Date_ISO, 0)
F_Plan == MkFile(TRUE, T_Plan, C_Text, N_Alice, FALSE, << >>, << >>, NoneVal, BigRels)
F_PlanMeeting == MkFile(TRUE, T_Plan, C_Agenda, N_Alice, TRUE, <<N_Bob>>, << >>, NoneVal, 0)
F_Broken == MkFile(FALSE, EmptyStr, NoneVal, NoneVal, FALSE, << >>, << >>, NoneVal, 0)
F_ShortTitle == MkFile(TRUE, T_X, C_Text, N_Bob, FALSE, << >>, << >>, NoneVal, 0)
F_BadDate == MkFile(TRUE, T_Plan, C_Text, N_Bob, FALSE, << >>, << >>, Date_DMY, 0)
F_NoTitle == MkFile(TRUE, EmptyStr, C_Text, N_Bob, FALSE, << >>, << >>, NoneVal, 0)

\* the content "follow-up to Plan " and the reference that
\* re.findall(r'follow[- ]?up to ([^\n\r]+)', content) captures in it
C_FollowUp == <<"f", "o", "l", "l", "o", "w", "-", "u", "p", " ", "t", "o", " ", "P", "l", "a", "n", " ">>
R_Plan == SubSeq(C_FollowUp, 14, Len(C_FollowUp))

WithFollowUp(f, content, ref, ref_date) ==
    [f EXCEPT !.content = content, !.followup = [text |-> ref, date |-> ref_date]]

\* the Sync meeting note that says it follows up the Plan meeting
F_FollowUp == WithFollowUp(F_SyncMeeting, C_FollowUp, R_Plan, NoneVal)

\* ------------------------------------------------------------------------
\* extract_entities_and_relationships.  The k-th node created for the file
\* in slot `slot` of the batch is the object <<"mem", slot, k>>; a node read
\* from the store is <<"db", id, 0>>.
\* ------------------------------------------------------------------------
MemRef(slot, k) == <<"mem", slot, k>>
DbRef(id) == <<"db", id, 0>>
NoProps == [k \in {} |-> EmptyStr]

MkRel(start, type, end, props) == [start |-> start, type |-> type, end |-> end, props |-> props]

K_Document == <<"Document">>
K_Author == <<"Author">>

\* enrich_document_node, then the meeting id and label of the meeting branch
DocNode(f) ==
    LET base == "title" :> f.title
        withContent == IF f.content # NoneVal /\ f.content # EmptyStr
                       THEN base @@ ("content" :> f.content) ELSE base
        withDate == IF f.date # NoneVal
                    THEN withContent @@ ("date" :> f.date) ELSE withContent
    IN  IF f.meeting
        THEN MkNode({"Document", "Meeting"},
                    withDate @@ ("meeting_id" :> generate_meeting_id(f.title, f.date)))
        ELSE MkNode({"Document"}, withDate)

PersonNode(name) == MkNode({"Person"}, "name" :> name)
DecisionNode(text) == MkNode({"Decision"}, "text" :> text)

DateProp(f, key) == IF f.date # NoneVal THEN key :> f.date ELSE NoProps

\* relationships found by extract_relationships_from_content
SynthRels(slot, n) ==
    [i \in 1..n |-> MkRel(MemRef(slot, 2), "RELATES_TO", MemRef(slot, 1), "co_occurrence_count" :> 1)]

\* for person in participants: create the Person unless already in node_map
RECURSIVE AddParticipants(_, _, _)
AddParticipants(slot, ps, acc) ==
    IF ps = << >> THEN acc
    ELSE LET person == Head(ps)
             known == person \in DOMAIN acc.node_map
             nodes2 == IF known THEN acc.nodes ELSE Append(acc.nodes, PersonNode(person))
             map2 == IF known THEN acc.node_map ELSE acc.node_map @@ (person :> Len(nodes2))
             rels2 == Append(acc.rels, MkRel(MemRef(slot, 1), "ATTENDED_BY", MemRef(slot, map2[person]), NoProps))
         IN  AddParticipants(slot, Tail(ps), [nodes |-> nodes2, rels |-> rels2, node_map |-> map2])

\* for i, decision in enumerate(decisions): Decision node and DECIDED edge
RECURSIVE AddDecisions(_, _, _, _)
AddDecisions(slot, f, ds, acc) ==
    IF ds = << >> THEN acc
    ELSE LET decision == Head(ds)
             keep == decision # EmptyStr /\ Len(decision) > 10
             nodes2 == IF keep THEN Append(acc.nodes, DecisionNode(decision)) ELSE acc.nodes
             rels2 == IF keep
                      THEN Append(acc.rels, MkRel(MemRef(slot, 1), "DECIDED", MemRef(slot, Len(nodes2)), DateProp(f, "when")))
                      ELSE acc.rels
         IN  AddDecisions(slot, f, Tail(ds), [nodes |-> nodes2, rels |-> rels2, node_map |-> acc.node_map])

\* "Mark attendance": a second ATTENDED_BY edge per participant, with on_date
RECURSIVE MarkAttendance(_, _, _, _)
MarkAttendance(slot, f, ps, acc) ==
    IF ps = << >> THEN acc
    ELSE LET person == Head(ps)
             rels2 == IF person \in DOMAIN acc.node_map
                      THEN Append(acc.rels, MkRel(MemRef(slot, 1), "ATTENDED_BY", MemRef(slot, acc.node_map[person]), DateProp(f, "on_date")))
                      ELSE acc.rels
         IN  MarkAttendance(slot, f, Tail(ps), [nodes |-> acc.nodes, rels |-> rels2, node_map |-> acc.node_map])

extract_entities_and_relationships(slot, f) ==
    LET a0 == [nodes |-> <<DocNode(f)>>, rels |-> << >>, node_map |-> (K_Document :> 1)]
        a1 == IF f.author # NoneVal /\ f.author # EmptyStr
              THEN [nodes |-> Append(a0.nodes, PersonNode(f.author)),
                    rels |-> <<MkRel(MemRef(slot, 1), "AUTHORED_BY", MemRef(slot, 2), NoProps)>>,
                    node_map |-> a0.node_map @@ (K_Author :> 2)]
              ELSE a0
        a2 == IF K_Author \in DOMAIN a1.node_map
              THEN [a1 EXCEPT !.rels = a1.rels \o SynthRels(slot, f.nrel)]
              ELSE a1
        a3 == IF f.meeting
              THEN MarkAttendance(slot, f, f.participants,
                       AddDecisions(slot, f, f.decisions,
                           AddParticipants(slot, f.participants, a2)))
              ELSE a2
    IN  [nodes |-> a3.nodes, rels |-> a3.rels]

\* ------------------------------------------------------------------------
\* The graph store.  Nodes are numbered in creation order, nothing is ever
\* deleted; `bound` maps the in-memory node objects of the current batch to
\* the store node they are bound to.  A transaction works on a copy of the
\* store (a view) that commit installs and rollback discards.
\* ------------------------------------------------------------------------
EmptyFcn == << >>
EmptyView == [nodes |-> << >>, edges |-> << >>, bound |-> EmptyFcn]

\* the constraints without the one on Document.title
ConstraintKey_NoDocument(label) ==
    CASE label \in {"Person", "Module", "Service", "Team", "BusinessObject", "Topic"} -> "name"
      [] label = "Date" -> "value"
      [] OTHER -> "-"

\* uniqueness constraints of create_schema_constraints: label -> key
ConstraintKey(label) ==
    CASE label = "Document" -> "title"
      [] label \in {"Person", "Module", "Service", "Team", "BusinessObject", "Topic"} -> "name"
      [] label = "Date" -> "value"
      [] OTHER -> "-"

SameKey(n1, n2, label, key) ==
    /\ label \in n1.labels
    /\ label \in n2.labels
    /\ Has(n1, key)
    /\ Has(n2, key)
    /\ n1.props[key] = n2.props[key]

\* some uniqueness constraint is violated by the node list
Violates(nodes) ==
    \E i, j \in 1..Len(nodes) :
        /\ i < j
        /\ \E label \in nodes[i].labels :
              /\ ConstraintKey(label) # "-"
              /\ SameKey(nodes[i], nodes[j], label, ConstraintKey(label))

Matches(view, node, label, key) ==
    {i \in 1..Len(view.nodes) : SameKey(view.nodes[i], node, label, key)}

MinOf(S) == CHOOSE x \in S : \A y \in S : x <= y

\* Transaction.merge(node, label, key): match on (label, key) or create,
\* then set the labels and properties of the node; the statement fails
\* when the result violates a uniqueness constraint
StoreMerge(view, ref, node, label, key) ==
    LET matches == Matches(view, node, label, key)
        target == IF matches # {} THEN MinOf(matches) ELSE Len(view.nodes) + 1
        merged == IF matches # {}
                  THEN MkNode(view.nodes[target].labels \cup node.labels,
                              node.props @@ view.nodes[target].props)
                  ELSE node
        nodes2 == IF matches # {}
                  THEN [view.nodes EXCEPT ![target] = merged]
                  ELSE Append(view.nodes, node)
    IN  IF Violates(nodes2)
        THEN [ok |-> FALSE, view |-> view]
        ELSE [ok |-> TRUE,
              view |-> [nodes |-> nodes2, edges |-> view.edges,
                        bound |-> (ref :> target) @@ view.bound]]

\* the store node of an endpoint, 0 when the object is not bound
EndpointId(view, ref) ==
    IF ref[1] = "db" THEN ref[2]
    ELSE IF ref \in DOMAIN view.bound THEN view.bound[ref] ELSE 0

\* creating an unbound endpoint of a relationship: CREATE of the node
CreateEndpoint(view, ref, objects) ==
    IF EndpointId(view, ref) # 0
    THEN [ok |-> TRUE, view |-> view]
    ELSE LET nodes2 == Append(view.nodes, objects[ref])
         IN  IF Violates(nodes2)
             THEN [ok |-> FALSE, view |-> view]
             ELSE [ok |-> TRUE,
                   view |-> [nodes |-> nodes2, edges |-> view.edges,
                             bound |-> (ref :> Len(nodes2)) @@ view.bound]]

\* a create that adds no edge when an equal edge is already stored
StoreCreate_SkipsExisting(view, rel, objects) ==
    LET s == CreateEndpoint(view, rel.start, objects)
        e == IF s.ok THEN CreateEndpoint(s.view, rel.end, objects) ELSE s
        edge == [start |-> EndpointId(e.view, rel.start), type |-> rel.type,
                 end |-> EndpointId(e.view, rel.end), props |-> rel.props]
    IN  IF ~e.ok
        THEN [ok |-> FALSE, view |-> e.view]
        ELSE [ok |-> TRUE,
              view |-> IF \E k \in 1..Len(e.view.edges) : e.view.edges[k] = edge
                       THEN e.view
                       ELSE [e.view EXCEPT !.edges = Append(@, edge)]]

\* Transaction.create(rel): unbound end nodes are created, then the edge
StoreCreate(view, rel, objects) ==
    LET s == CreateEndpoint(view, rel.start, objects)
        e == IF s.ok THEN CreateEndpoint(s.view, rel.end, objects) ELSE s
    IN  IF ~e.ok
        THEN [ok |-> FALSE, view |-> e.view]
        ELSE [ok |-> TRUE,
              view |-> [e.view EXCEPT !.edges =
                          Append(@, [start |-> EndpointId(e.view, rel.start),
                                     type |-> rel.type,
                                     end |-> EndpointId(e.view, rel.end),
                                     props |-> rel.props])]]

\* ------------------------------------------------------------------------
\* State of batch_process_files
\* ------------------------------------------------------------------------
VARIABLES
    pc, runs, files, batch_size, labelFirst, faults,
    total_nodes_created, total_rels_created, total_files_processed, total_errors,
    failed_nodes, failed_rels,
    start, slot, objs, batch_nodes, batch_rels, batch_files_processed,
    batch_failed_nodes, batch_failed_rels, nodes_created, rels_created,
    failed_node_ids, constraint_failed_nodes, node_replacements, looked_up,
    filtered_rels, ni, sub_start,
    store, tx, txOpen,
    failed_nodes_log, failed_relationships_log, returned,
    merge_calls, filtered_src, submitted, raised_at, sub_outcomes, extracted, store0, invalid_refs, other_fault, any_node,
    raised_slots, collaborators, probe

runVars == <<runs, files, batch_size, labelFirst>>
totalVars == <<total_nodes_created, total_rels_created, total_files_processed, total_errors,
               failed_nodes, failed_rels>>
extractVars == <<start, slot, objs, batch_nodes, batch_rels, batch_files_processed, invalid_refs,
                 raised_slots>>
nodeTxVars == <<nodes_created, failed_node_ids, constraint_failed_nodes, ni, merge_calls>>
resolveVars == <<node_replacements, looked_up>>
filterVars == <<filtered_rels, filtered_src>>
subVars == <<rels_created, sub_start, submitted, raised_at, sub_outcomes>>
logVars == <<failed_nodes_log, failed_relationships_log, returned, extracted>>

loaderVars == <<pc, faults, runVars, totalVars, extractVars, nodeTxVars, resolveVars, filterVars,
                subVars, logVars, batch_failed_nodes, batch_failed_rels, store, tx, txOpen,
                store0, other_fault, any_node, collaborators>>

vars == <<loaderVars, probe>>

\* ------------------------------------------------------------------------
\* Inputs of a run
\* ------------------------------------------------------------------------
ExtractedFiles == {F_SyncMeeting, F_Plan, F_PlanMeeting, F_Broken, F_ShortTitle}

\* files for the validator: a document without a title, one with a title
\* of one character, and one whose Document node carries a date that the
\* title heuristics never build
ValidationFiles == {F_NoTitle, F_ShortTitle, F_BadDate, F_SyncMeeting}

\* files for the collaborators: a meeting note with content long enough for
\* an embedding and a follow-up reference, and the meeting it refers to
CollaboratorFiles == {F_FollowUp, F_PlanMeeting, F_Broken}

Catalogue ==
    IF any_node THEN ValidationFiles
    ELSE IF collaborators THEN CollaboratorFiles
    ELSE ExtractedFiles

FileLists == UNION {[1..n -> Catalogue] : n \in 0..MaxFiles}

BatchSizes == 1..MaxFiles

Idx(n) == [i \in 1..n |-> i]

Min(a, b) == IF a < b THEN a ELSE b

\* batches = [files[i:i + batch_size] for i in range(0, total_files, batch_size)]
BatchLen == Min(batch_size, Len(files) - start)

\* list(node.labels)[0]: the order of a label set is the order of a hash
\* set, fixed for a process and different between processes
FirstLabel(labels) ==
    IF labelFirst \in labels /\ Cardinality(labels) > 1
    THEN labelFirst
    ELSE CHOOSE l \in labels : TRUE

\* "title" if "title" in node else ("name" if ... else ("value" if ... else None))
MergeKey(node) ==
    IF Has(node, "title") THEN "title"
    ELSE IF Has(node, "name") THEN "name"
    ELSE IF Has(node, "value") THEN "value"
    ELSE "-"

\* lines 953-957 and 986-991: the per-batch variables
StartBatch(offset) ==
    /\ start' = offset
    /\ slot' = 1
    /\ objs' = EmptyFcn
    /\ batch_nodes' = << >>
    /\ batch_rels' = << >>
    /\ batch_files_processed' = 0
    /\ batch_failed_nodes' = << >>
    /\ batch_failed_rels' = << >>
    /\ nodes_created' = 0
    /\ rels_created' = 0
    /\ failed_node_ids' = {}
    /\ constraint_failed_nodes' = {}
    /\ node_replacements' = EmptyFcn
    /\ looked_up' = {}
    /\ filtered_rels' = << >>
    /\ filtered_src' = << >>
    /\ ni' = 1
    /\ sub_start' = 0
    /\ merge_calls' = {}
    /\ submitted' = << >>
    /\ raised_at' = << >>
    /\ sub_outcomes' = << >>
    /\ invalid_refs' = {}
    /\ raised_slots' = {}
    /\ other_fault' = FALSE
    /\ store0' = [nodes |-> store.nodes, edges |-> store.edges]

\* the next iteration of "for i, batch in enumerate(batches)", or the end
NextBatch(offset, total) ==
    /\ StartBatch(offset)
    /\ pc' = IF offset < total THEN "extract" ELSE "write_logs"

InitState ==
    /\ pc = "idle"
    /\ runs = 0
    /\ files = << >>
    /\ batch_size = 1
    /\ labelFirst = "Document"
    /\ faults = 0
    /\ total_nodes_created = 0
    /\ total_rels_created = 0
    /\ total_files_processed = 0
    /\ total_errors = 0
    /\ failed_nodes = << >>
    /\ failed_rels = << >>
    /\ start = 0
    /\ slot = 1
    /\ objs = EmptyFcn
    /\ batch_nodes = << >>
    /\ batch_rels = << >>
    /\ batch_files_processed = 0
    /\ batch_failed_nodes = << >>
    /\ batch_failed_rels = << >>
    /\ nodes_created = 0
    /\ rels_created = 0
    /\ failed_node_ids = {}
    /\ constraint_failed_nodes = {}
    /\ node_replacements = EmptyFcn
    /\ looked_up = {}
    /\ filtered_rels = << >>
    /\ filtered_src = << >>
    /\ ni = 1
    /\ sub_start = 0
    /\ store = EmptyView
    /\ tx = EmptyView
    /\ txOpen = FALSE
    /\ failed_nodes_log = << >>
    /\ failed_relationships_log = << >>
    /\ returned = << >>
    /\ merge_calls = {}
    /\ submitted = << >>
    /\ raised_at = << >>
    /\ extracted = {}
    /\ sub_outcomes = << >>
    /\ invalid_refs = {}
    /\ raised_slots = {}
    /\ other_fault = FALSE
    /\ store0 = [nodes |-> << >>, edges |-> << >>]

\* batch_process_files(files, batch_size) is called: lines 941-949
StartRun ==
    /\ pc \in {"idle", "crashed"}
    /\ runs < MaxRuns
    /\ \E fl \in FileLists, bs \in BatchSizes, lf \in {"Document", "Meeting"} :
          /\ runs > 0 => Len(fl) <= MaxReloads
          /\ bs <= Len(fl) \/ bs = 1
          /\ lf = "Document" \/ \E i \in 1..Len(fl) : fl[i].meeting
          /\ files' = fl
          /\ batch_size' = bs
          /\ labelFirst' = lf
          /\ NextBatch(0, Len(fl))
    /\ runs' = runs + 1
    /\ total_nodes_created' = 0
    /\ total_rels_created' = 0
    /\ total_files_processed' = 0
    /\ total_errors' = 0
    /\ failed_nodes' = << >>
    /\ failed_rels' = << >>
    /\ returned' = << >>
    /\ extracted' = {}
    /\ store' = [store EXCEPT !.bound = EmptyFcn]
    /\ tx' = EmptyView
    /\ txOpen' = FALSE
    /\ UNCHANGED <<faults, failed_nodes_log, failed_relationships_log, any_node, collaborators, probe>>

\* lines 247-256: an embedding is requested for content longer than 10
\* characters; get_ollama_embedding returns the vector, or None when the
\* request fails
EmbeddingOutcomes(f) ==
    IF f.parses /\ f.content # NoneVal /\ Len(f.content) > 10
    THEN {"vector", "failed"} ELSE {"none"}

\* line 863: graph.run(...) is called once for a follow-up reference of a
\* meeting note; the query answers or raises
FollowUpOutcomes(f) ==
    IF f.parses /\ f.meeting /\ f.followup.text # NoneVal
    THEN {"answered", "raises"} ELSE {"none"}

FaultsOf(emb, ask) ==
    (IF emb = "failed" THEN 1 ELSE 0) + (IF ask = "raises" THEN 1 ELSE 0)

\* lines 861-862: ref_id = generate_meeting_id(ref, extract_date_from_title(ref))
FollowUpId(f) == generate_meeting_id(f.followup.text, f.followup.date)

\* MATCH (m:Meeting {meeting_id: $mid}) RETURN m LIMIT 1, on the committed store
FollowUpMatches(f) ==
    {id \in 1..Len(store.nodes) :
        /\ "Meeting" \in store.nodes[id].labels
        /\ Has(store.nodes[id], "meeting_id")
        /\ store.nodes[id].props["meeting_id"] = FollowUpId(f)}

\* extract_entities_and_relationships with the answers of its collaborators:
\* the embedding set by enrich_document_node (None leaves no property) and
\* the FOLLOWS_UP edge to the meeting that the store returns
ExtractWith(file_slot, f, emb, ask) ==
    LET frag == extract_entities_and_relationships(file_slot, f)
        doc == frag.nodes[1]
        enriched == IF emb = "vector"
                    THEN MkNode(doc.labels, doc.props @@ ("embedding" :> <<"vector">>))
                    ELSE doc
        found == IF ask = "answered" THEN FollowUpMatches(f) ELSE {}
        rels == IF found # {}
                THEN Append(frag.rels, MkRel(MemRef(file_slot, 1), "FOLLOWS_UP", DbRef(MinOf(found)), NoProps))
                ELSE frag.rels
    IN  [nodes |-> [frag.nodes EXCEPT ![1] = enriched], rels |-> rels]

\* the loop over the files that is left at the first file that raises
ExtractFile_BreaksOnError ==
    /\ pc = "extract"
    /\ \E emb \in EmbeddingOutcomes(files[start + slot]), ask \in FollowUpOutcomes(files[start + slot]) :
       \E frag \in {ExtractWith(slot, files[start + slot], emb, ask)} :
       LET f == files[start + slot]
           n == Len(frag.nodes)
           validIdx == SelectSeq(Idx(n), LAMBDA k : validate_node_data(frag.nodes[k]) = "ok")
           invalidIdx == SelectSeq(Idx(n), LAMBDA k : validate_node_data(frag.nodes[k]) # "ok")
           valid_nodes == [i \in 1..Len(validIdx) |-> MemRef(slot, validIdx[i])]
           failures == [i \in 1..Len(invalidIdx) |->
                           [file |-> start + slot,
                            node |-> frag.nodes[invalidIdx[i]].props,
                            error |-> validate_node_data(frag.nodes[invalidIdx[i]])]]
       IN  /\ faults + FaultsOf(emb, ask) <= MaxFaults
           /\ faults' = faults + FaultsOf(emb, ask)
           /\ IF f.parses /\ ask # "raises"
              THEN /\ objs' = [r \in {MemRef(slot, k) : k \in 1..n} |-> frag.nodes[r[3]]] @@ objs
                   /\ batch_nodes' = batch_nodes \o valid_nodes
                   /\ batch_rels' = batch_rels \o frag.rels
                   /\ batch_failed_nodes' = batch_failed_nodes \o failures
                   /\ batch_files_processed' = batch_files_processed + 1
                   /\ invalid_refs' = invalid_refs \cup {MemRef(slot, invalidIdx[i]) : i \in 1..Len(invalidIdx)}
                   /\ extracted' = extracted \cup {[file |-> start + slot, node |-> frag.nodes[k]] : k \in 1..n}
                   /\ UNCHANGED <<total_errors, raised_slots>>
              ELSE /\ total_errors' = total_errors + 1
                   /\ raised_slots' = raised_slots \cup {slot}
                   /\ UNCHANGED <<objs, batch_nodes, batch_rels, batch_failed_nodes,
                                  batch_files_processed, invalid_refs, extracted>>
    /\ IF slot < BatchLen /\ slot \notin raised_slots'
       THEN slot' = slot + 1 /\ pc' = "extract"
       ELSE slot' = slot /\ pc' = "begin_nodes"
    /\ UNCHANGED <<runVars, start, total_nodes_created, total_rels_created,
                   total_files_processed, failed_nodes, failed_rels, nodeTxVars, resolveVars,
                   filterVars, subVars, failed_nodes_log, failed_relationships_log, returned,
                   batch_failed_rels, store, tx, txOpen,
                   store0, other_fault, any_node, collaborators, probe>>

\* lines 960-984: one file of the batch is loaded, extracted and validated
ExtractFile ==
    /\ pc = "extract"
    /\ \E emb \in EmbeddingOutcomes(files[start + slot]), ask \in FollowUpOutcomes(files[start + slot]) :
       \E frag \in {ExtractWith(slot, files[start + slot], emb, ask)} :
       LET f == files[start + slot]
           n == Len(frag.nodes)
           validIdx == SelectSeq(Idx(n), LAMBDA k : validate_node_data(frag.nodes[k]) = "ok")
           invalidIdx == SelectSeq(Idx(n), LAMBDA k : validate_node_data(frag.nodes[k]) # "ok")
           valid_nodes == [i \in 1..Len(validIdx) |-> MemRef(slot, validIdx[i])]
           failures == [i \in 1..Len(invalidIdx) |->
                           [file |-> start + slot,
                            node |-> frag.nodes[invalidIdx[i]].props,
                            error |-> validate_node_data(frag.nodes[invalidIdx[i]])]]
       IN  /\ faults + FaultsOf(emb, ask) <= MaxFaults
           /\ faults' = faults + FaultsOf(emb, ask)
           /\ IF f.parses /\ ask # "raises"
              THEN /\ objs' = [r \in {MemRef(slot, k) : k \in 1..n} |-> frag.nodes[r[3]]] @@ objs
                   /\ batch_nodes' = batch_nodes \o valid_nodes
                   /\ batch_rels' = batch_rels \o frag.rels
                   /\ batch_failed_nodes' = batch_failed_nodes \o failures
                   /\ batch_files_processed' = batch_files_processed + 1
                   /\ invalid_refs' = invalid_refs \cup {MemRef(slot, invalidIdx[i]) : i \in 1..Len(invalidIdx)}
                   /\ extracted' = extracted \cup {[file |-> start + slot, node |-> frag.nodes[k]] : k \in 1..n}
                   /\ UNCHANGED <<total_errors, raised_slots>>
              ELSE /\ total_errors' = total_errors + 1
                   /\ raised_slots' = raised_slots \cup {slot}
                   /\ UNCHANGED <<objs, batch_nodes, batch_rels, batch_failed_nodes,
                                  batch_files_processed, invalid_refs, extracted>>
    /\ IF slot < BatchLen
       THEN slot' = slot + 1 /\ pc' = "extract"
       ELSE slot' = slot /\ pc' = "begin_nodes"
    /\ UNCHANGED <<runVars, start, total_nodes_created, total_rels_created,
                   total_files_processed, failed_nodes, failed_rels, nodeTxVars, resolveVars,
                   filterVars, subVars, failed_nodes_log, failed_relationships_log, returned,
                   batch_failed_rels, store, tx, txOpen,
                   store0, other_fault, any_node, collaborators, probe>>

\* line 990: tx_nodes = graph.begin()
BeginNodeTx ==
    /\ pc = "begin_nodes"
    /\ tx' = [store EXCEPT !.bound = EmptyFcn]
    /\ txOpen' = TRUE
    /\ pc' = "merge"
    /\ UNCHANGED <<faults, runVars, totalVars, extractVars, nodeTxVars, resolveVars, filterVars,
                   subVars, logVars, batch_failed_nodes, batch_failed_rels, store,
                   store0, other_fault, any_node, collaborators, probe>>

\* line 990 raises: graph.begin() stands outside every try block, the
\* exception leaves batch_process_files
BeginNodeTxRaises ==
    /\ pc = "begin_nodes"
    /\ faults < MaxFaults
    /\ faults' = faults + 1
    /\ pc' = "crashed"
    /\ UNCHANGED <<runVars, totalVars, extractVars, nodeTxVars, resolveVars, filterVars,
                   subVars, logVars, batch_failed_nodes, batch_failed_rels, store, tx, txOpen,
                   store0, other_fault, any_node, collaborators, probe>>

MergeRef == batch_nodes[ni]
MergeResult ==
    StoreMerge(tx, MergeRef, objs[MergeRef], FirstLabel(objs[MergeRef].labels), MergeKey(objs[MergeRef]))

MergeUnchanged ==
    UNCHANGED <<pc, runVars, totalVars, extractVars, resolveVars, filterVars, subVars, logVars,
                batch_failed_rels, store, txOpen, store0, any_node, collaborators, probe>>

\* lines 996-998 with key None: the node is not merged
MergeNodeSkip ==
    /\ pc = "merge"
    /\ ni <= Len(batch_nodes)
    /\ MergeKey(objs[MergeRef]) = "-"
    /\ ni' = ni + 1
    /\ UNCHANGED <<faults, tx, nodes_created, failed_node_ids, constraint_failed_nodes,
                   merge_calls, batch_failed_nodes, other_fault>>
    /\ MergeUnchanged

\* lines 999-1002: tx_nodes.merge(node, label, key) succeeds
MergeNodeOk ==
    /\ pc = "merge"
    /\ ni <= Len(batch_nodes)
    /\ MergeKey(objs[MergeRef]) # "-"
    /\ MergeResult.ok
    /\ tx' = MergeResult.view
    /\ nodes_created' = nodes_created + 1
    /\ merge_calls' = merge_calls \cup {MergeRef}
    /\ ni' = ni + 1
    /\ UNCHANGED <<faults, failed_node_ids, constraint_failed_nodes, batch_failed_nodes, other_fault>>
    /\ MergeUnchanged

\* lines 1003-1010: the merge raises a ConstraintValidation error, either
\* because its result violates a uniqueness constraint or because the store
\* reports the existing node with the same key as a conflict
MergeNodeConstraint ==
    /\ pc = "merge"
    /\ ni <= Len(batch_nodes)
    /\ MergeKey(objs[MergeRef]) # "-"
    /\ \/ ~MergeResult.ok
       \/ Matches(tx, objs[MergeRef], FirstLabel(objs[MergeRef].labels), MergeKey(objs[MergeRef])) # {}
    /\ constraint_failed_nodes' = constraint_failed_nodes \cup {MergeRef}
    /\ batch_failed_nodes' = Append(batch_failed_nodes,
                                    [node |-> objs[MergeRef].props, error |-> "Constraint violation"])
    /\ merge_calls' = merge_calls \cup {MergeRef}
    /\ ni' = ni + 1
    /\ UNCHANGED <<faults, tx, nodes_created, failed_node_ids, other_fault>>
    /\ MergeUnchanged

\* lines 1011-1014: the merge raises another error, the node has failed
MergeNodeError ==
    /\ pc = "merge"
    /\ ni <= Len(batch_nodes)
    /\ MergeKey(objs[MergeRef]) # "-"
    /\ faults < MaxFaults
    /\ faults' = faults + 1
    /\ failed_node_ids' = failed_node_ids \cup {MergeRef}
    /\ batch_failed_nodes' = Append(batch_failed_nodes,
                                    [node |-> objs[MergeRef].props, error |-> "error"])
    /\ merge_calls' = merge_calls \cup {MergeRef}
    /\ other_fault' = TRUE
    /\ ni' = ni + 1
    /\ UNCHANGED <<tx, nodes_created, constraint_failed_nodes>>
    /\ MergeUnchanged

\* the relationship phase entered with the node transaction still open
CommitNodes_LeavesOpen ==
    /\ pc = "merge"
    /\ ni > Len(batch_nodes)
    /\ pc' = "resolve"
    /\ UNCHANGED <<faults, runVars, totalVars, extractVars, nodeTxVars, resolveVars, filterVars,
                   subVars, logVars, batch_failed_nodes, batch_failed_rels, store, tx, txOpen,
                   store0, other_fault, any_node, collaborators, probe>>

\* line 1018: tx_nodes.commit()
CommitNodes ==
    /\ pc = "merge"
    /\ ni > Len(batch_nodes)
    /\ store' = tx
    /\ tx' = EmptyView
    /\ txOpen' = FALSE
    /\ pc' = "resolve"
    /\ UNCHANGED <<faults, runVars, totalVars, extractVars, nodeTxVars, resolveVars, filterVars,
                   subVars, logVars, batch_failed_nodes, batch_failed_rels,
                   store0, other_fault, any_node, collaborators, probe>>

\* line 1018 raises: control passes to the handler of line 1130
CommitNodesRaises ==
    /\ pc = "merge"
    /\ ni > Len(batch_nodes)
    /\ faults < MaxFaults
    /\ faults' = faults + 1
    /\ other_fault' = TRUE
    /\ pc' = "except"
    /\ UNCHANGED <<runVars, totalVars, extractVars, nodeTxVars, resolveVars, filterVars,
                   subVars, logVars, batch_failed_nodes, batch_failed_rels, store, tx, txOpen,
                   store0, any_node, collaborators, probe>>

ResolveUnchanged ==
    UNCHANGED <<pc, runVars, totalVars, extractVars, nodeTxVars, filterVars, subVars, logVars,
                batch_failed_nodes, batch_failed_rels, store, tx, txOpen, store0, any_node, collaborators, probe>>

\* lines 1024-1040: the store is asked for the node with the label and key
\* of a constraint-failed node; a node found is its replacement
LookupReplacement ==
    /\ pc = "resolve"
    /\ \E ref \in constraint_failed_nodes \ looked_up :
          LET node == objs[ref]
              label == FirstLabel(node.labels)
              key_prop == MergeKey(node)
              result == IF key_prop # "-" /\ Truthy(node, key_prop)
                        THEN Matches(store, node, label, key_prop) ELSE {}
          IN  /\ looked_up' = looked_up \cup {ref}
              /\ IF result # {}
                 THEN \E id \in result : node_replacements' = (ref :> id) @@ node_replacements
                 ELSE UNCHANGED node_replacements
    /\ UNCHANGED <<faults, other_fault>>
    /\ ResolveUnchanged

\* lines 1041-1042: the query raises, no replacement is recorded
LookupReplacementRaises ==
    /\ pc = "resolve"
    /\ faults < MaxFaults
    /\ \E ref \in constraint_failed_nodes \ looked_up : looked_up' = looked_up \cup {ref}
    /\ faults' = faults + 1
    /\ other_fault' = TRUE
    /\ UNCHANGED node_replacements
    /\ ResolveUnchanged

\* the rewrite that copies no properties when both end nodes are replaced
ApplyReplacements_DropsProps(rel, replacements) ==
    LET start_replaced == rel.start \in DOMAIN replacements
        end_replaced == rel.end \in DOMAIN replacements
    IN  IF start_replaced /\ end_replaced
        THEN MkRel(DbRef(replacements[rel.start]), rel.type, DbRef(replacements[rel.end]), NoProps)
        ELSE IF start_replaced
        THEN MkRel(DbRef(replacements[rel.start]), rel.type, rel.end, rel.props)
        ELSE IF end_replaced
        THEN MkRel(rel.start, rel.type, DbRef(replacements[rel.end]), rel.props)
        ELSE rel

\* the rewrite that forgets the branch for a replaced end node alone
ApplyReplacements_StartOnly(rel, replacements) ==
    LET start_replaced == rel.start \in DOMAIN replacements
        end_replaced == rel.end \in DOMAIN replacements
    IN  IF start_replaced /\ end_replaced
        THEN MkRel(DbRef(replacements[rel.start]), rel.type, DbRef(replacements[rel.end]), rel.props)
        ELSE IF start_replaced
        THEN MkRel(DbRef(replacements[rel.start]), rel.type, rel.end, rel.props)
        ELSE rel

\* lines 1057-1083: the relationship with its constraint-replaced end
\* nodes exchanged for their replacements, type and properties copied
ApplyReplacements(rel, replacements) ==
    LET start_replaced == rel.start \in DOMAIN replacements
        end_replaced == rel.end \in DOMAIN replacements
    IN  IF start_replaced /\ end_replaced
        THEN MkRel(DbRef(replacements[rel.start]), rel.type, DbRef(replacements[rel.end]), rel.props)
        ELSE IF start_replaced
        THEN MkRel(DbRef(replacements[rel.start]), rel.type, rel.end, rel.props)
        ELSE IF end_replaced
        THEN MkRel(rel.start, rel.type, DbRef(replacements[rel.end]), rel.props)
        ELSE rel

\* the test that looks at the start node alone
InvolvesFailedNode_StartOnly(rel, failed) == rel.start \in failed

\* line 1052: either end node failed with a non-constraint error
InvolvesFailedNode(rel, failed) == rel.start \in failed \/ rel.end \in failed

\* lines 1046-1086: the relationships of the batch that are kept, as
\* indexes into batch_rels, and those dropped for a failed end node
KeptIdx(rels, failed) ==
    SelectSeq(Idx(Len(rels)), LAMBDA i : ~InvolvesFailedNode(rels[i], failed))

DroppedIdx(rels, failed) ==
    SelectSeq(Idx(Len(rels)), LAMBDA i : InvolvesFailedNode(rels[i], failed))

FilterRels ==
    /\ pc = "resolve"
    /\ constraint_failed_nodes \subseteq looked_up
    /\ LET kept == KeptIdx(batch_rels, failed_node_ids)
           dropped == DroppedIdx(batch_rels, failed_node_ids)
       IN  /\ filtered_rels' = [j \in 1..Len(kept) |->
                                   ApplyReplacements(batch_rels[kept[j]], node_replacements)]
           /\ filtered_src' = kept
           /\ batch_failed_rels' = batch_failed_rels \o
                  [j \in 1..Len(dropped) |->
                      [rel |-> batch_rels[dropped[j]], error |-> "Relationship involves failed node"]]
           \* line 1089: if filtered_rels
           /\ pc' = IF Len(kept) > 0 THEN "sub_begin" ELSE "batch_ok"
    /\ UNCHANGED <<faults, runVars, totalVars, extractVars, nodeTxVars, resolveVars, subVars,
                   logVars, batch_failed_nodes, store, tx, txOpen, store0, other_fault, any_node, collaborators, probe>>

\* filtered_rels[i:i + sub_batch_size]
SubBatchOf(rels, offset, size) == SubSeq(rels, offset + 1, Min(offset + size, Len(rels)))

SubBatch == SubBatchOf(filtered_rels, sub_start, sub_batch_size)

\* lines 1099-1107: every relationship of the sub-batch is handed to
\* sub_tx.create; one that raises is recorded and the loop goes on.  `bad`
\* are the positions at which the store raises for a reason of its own.
CreateOne(sub_batch, i, bad, offset, objects, acc) ==
    LET rel == sub_batch[i]
        r == StoreCreate(acc.view, rel, objects)
        raises == ~r.ok \/ i \in bad
    IN  [view |-> IF i \in bad THEN acc.view ELSE r.view,
         success |-> IF raises THEN acc.success ELSE acc.success + 1,
         failed |-> IF raises
                    THEN Append(acc.failed, [rel |-> rel, error |-> "create failed"])
                    ELSE acc.failed,
         raised_at |-> IF raises THEN Append(acc.raised_at, offset + i) ELSE acc.raised_at,
         attempted |-> Append(acc.attempted, offset + i)]

\* the loop that leaves at the first relationship that raises
RECURSIVE CreateRange_StopsAtFailure(_, _, _, _, _, _, _)
CreateRange_StopsAtFailure(sub_batch, lo, hi, bad, offset, objects, acc) ==
    IF lo > hi \/ acc.failed # << >> THEN acc
    ELSE LET next == CreateOne(sub_batch, lo, bad, offset, objects, acc)
         IN  IF next.success >= 0
             THEN CreateRange_StopsAtFailure(sub_batch, lo + 1, hi, bad, offset, objects, next)
             ELSE acc

\* the loop over positions lo..hi in order; it is split in halves, the
\* first half evaluated before the second, to keep the evaluation flat
RECURSIVE CreateRange(_, _, _, _, _, _, _)
CreateRange(sub_batch, lo, hi, bad, offset, objects, acc) ==
    IF lo > hi THEN acc
    ELSE IF lo = hi THEN CreateOne(sub_batch, lo, bad, offset, objects, acc)
    ELSE LET mid == (lo + hi) \div 2
             left == CreateRange(sub_batch, lo, mid, bad, offset, objects, acc)
         IN  IF left.success >= 0
             THEN CreateRange(sub_batch, mid + 1, hi, bad, offset, objects, left)
             ELSE acc

SubBatchRun(bad) ==
    CreateRange(SubBatch, 1, Len(SubBatch), bad, sub_start, objs,
                [view |-> store, success |-> 0, failed |-> << >>, raised_at |-> << >>,
                 attempted |-> << >>])

\* the positions of a sub-batch at which the store may raise on its own:
\* none, or one position for one fault of the budget
BadChoices ==
    IF faults < MaxFaults
    THEN {{}} \cup {{i} : i \in 1..Len(SubBatch)}
    ELSE {{}}

\* the next iteration of "for sub_batch in rel_sub_batches", or line 1120
NextSubBatch ==
    /\ sub_start' = sub_start + sub_batch_size
    /\ pc' = IF sub_start + sub_batch_size < Len(filtered_rels) THEN "sub_begin" ELSE "batch_ok"

\* lines 1095-1112: a sub-batch transaction is opened, its relationships
\* are created and it is committed
SubBatchCommits ==
    /\ pc = "sub_begin"
    /\ \E bad \in BadChoices :
          LET run == SubBatchRun(bad)
          IN  /\ store' = run.view
              /\ rels_created' = rels_created + run.success
              /\ batch_failed_rels' = batch_failed_rels \o run.failed
              /\ submitted' = submitted \o run.attempted
              /\ raised_at' = raised_at \o run.raised_at
              /\ faults' = faults + Cardinality(bad)
              /\ other_fault' = (other_fault \/ bad # {})
    /\ sub_outcomes' = Append(sub_outcomes, "committed")
    /\ NextSubBatch
    /\ UNCHANGED <<runVars, totalVars, extractVars, nodeTxVars, resolveVars, filterVars,
                   logVars, batch_failed_nodes, tx, txOpen, store0, any_node, collaborators, probe>>

\* a rollback after which the loop over the sub-batches is left
SubBatchRollsBack_LeavesLoop ==
    /\ pc = "sub_begin"
    /\ faults < MaxFaults
    /\ LET run == SubBatchRun({})
       IN  /\ batch_failed_rels' = batch_failed_rels \o run.failed
           /\ submitted' = submitted \o run.attempted
           /\ raised_at' = raised_at \o run.raised_at
    /\ faults' = faults + 1
    /\ other_fault' = TRUE
    /\ sub_outcomes' = Append(sub_outcomes, "rolled_back")
    /\ sub_start' = sub_start + sub_batch_size
    /\ pc' = "batch_ok"
    /\ UNCHANGED <<runVars, totalVars, extractVars, nodeTxVars, resolveVars, filterVars,
                   rels_created, logVars, batch_failed_nodes, store, tx, txOpen, store0, any_node, collaborators, probe>>

\* lines 1095-1107 and 1113-1118: the commit of the sub-batch raises and
\* the sub-batch is rolled back
SubBatchRollsBack ==
    /\ pc = "sub_begin"
    /\ faults < MaxFaults
    /\ LET run == SubBatchRun({})
       IN  /\ batch_failed_rels' = batch_failed_rels \o run.failed
           /\ submitted' = submitted \o run.attempted
           /\ raised_at' = raised_at \o run.raised_at
    /\ faults' = faults + 1
    /\ other_fault' = TRUE
    /\ sub_outcomes' = Append(sub_outcomes, "rolled_back")
    /\ NextSubBatch
    /\ UNCHANGED <<runVars, totalVars, extractVars, nodeTxVars, resolveVars, filterVars,
                   rels_created, logVars, batch_failed_nodes, store, tx, txOpen, store0, any_node, collaborators, probe>>

\* line 1095 raises: it stands outside the try of line 1098, control
\* passes to the handler of line 1130
BeginSubTxRaises ==
    /\ pc = "sub_begin"
    /\ faults < MaxFaults
    /\ faults' = faults + 1
    /\ other_fault' = TRUE
    /\ pc' = "except"
    /\ UNCHANGED <<runVars, totalVars, extractVars, nodeTxVars, resolveVars, filterVars,
                   subVars, logVars, batch_failed_nodes, batch_failed_rels, store, tx, txOpen,
                   store0, any_node, collaborators, probe>>

\* lines 1143-1147: the batch's failures are added to the run's lists, twice
Accumulate(node_failures, rel_failures) ==
    /\ failed_nodes' = failed_nodes \o node_failures \o node_failures
    /\ failed_rels' = failed_rels \o rel_failures \o rel_failures

\* lines 1123-1128 and 1143-1147: the batch ends without an exception
BatchOk ==
    /\ pc = "batch_ok"
    /\ total_nodes_created' = total_nodes_created + nodes_created
    /\ total_rels_created' = total_rels_created + rels_created
    /\ total_files_processed' = total_files_processed + batch_files_processed
    /\ Accumulate(batch_failed_nodes, batch_failed_rels)
    /\ NextBatch(start + batch_size, Len(files))
    /\ store' = [store EXCEPT !.bound = EmptyFcn]
    /\ UNCHANGED <<faults, runVars, total_errors, logVars, tx, txOpen, any_node, collaborators, probe>>

\* the handler that records the first relationship of the batch alone
NodeTxFailed_FirstOnly(rels) ==
    [i \in 1..Min(1, Len(rels)) |-> [rel |-> rels[i], error |-> "Node transaction failed"]]

\* lines 1137-1140: every relationship of the batch is recorded as failed
NodeTxFailed(rels) == [i \in 1..Len(rels) |-> [rel |-> rels[i], error |-> "Node transaction failed"]]

\* lines 1130-1147: the handler of an exception in the batch
HandleBatchException ==
    /\ pc = "except"
    /\ tx' = EmptyView
    /\ txOpen' = FALSE
    /\ total_errors' = total_errors + 1
    /\ Accumulate(batch_failed_nodes, batch_failed_rels \o NodeTxFailed(batch_rels))
    /\ NextBatch(start + batch_size, Len(files))
    /\ store' = [store EXCEPT !.bound = EmptyFcn]
    /\ UNCHANGED <<faults, runVars, total_nodes_created, total_rels_created,
                   total_files_processed, logVars, any_node, collaborators, probe>>

\* lines 1148-1159: the logs are written and the counts returned
WriteLogs ==
    /\ pc = "write_logs"
    /\ failed_nodes_log' = IF failed_nodes # << >> THEN failed_nodes ELSE failed_nodes_log
    /\ failed_relationships_log' = IF failed_rels # << >> THEN failed_rels ELSE failed_relationships_log
    /\ returned' = <<total_files_processed, total_nodes_created, total_rels_created, total_errors>>
    /\ pc' = "idle"
    /\ UNCHANGED <<extracted, faults, runVars, totalVars, extractVars, nodeTxVars, resolveVars, filterVars,
                   subVars, batch_failed_nodes, batch_failed_rels, store, tx, txOpen,
                   store0, other_fault, any_node, collaborators, probe>>

Next ==
    \/ StartRun
    \/ ExtractFile
    \/ BeginNodeTx
    \/ BeginNodeTxRaises
    \/ MergeNodeSkip
    \/ MergeNodeOk
    \/ MergeNodeConstraint
    \/ MergeNodeError
    \/ CommitNodes
    \/ CommitNodesRaises
    \/ LookupReplacement
    \/ LookupReplacementRaises
    \/ FilterRels
    \/ SubBatchCommits
    \/ SubBatchRollsBack
    \/ BeginSubTxRaises
    \/ BatchOk
    \/ HandleBatchException
    \/ WriteLogs

\* `probe` holds the arguments and results of the functions that are called
\* on their own; the loader does not touch it
NoProbe == << >>

\* the files of the loading scenarios
Init == InitState /\ any_node = FALSE /\ collaborators = FALSE /\ probe = NoProbe

\* the files of the validation scenarios
InitAnyNode == InitState /\ any_node = TRUE /\ collaborators = FALSE /\ probe = NoProbe

\* the runs whose files call the embedding service and the follow-up lookup
InitCollaborators == InitState /\ any_node = FALSE /\ collaborators = TRUE /\ probe = NoProbe

Spec == Init /\ [][Next]_vars

SpecAnyNode == InitAnyNode /\ [][Next]_vars

SpecCollaborators == InitCollaborators /\ [][Next]_vars

TypeOK == pc \in {"idle", "crashed", "extract", "begin_nodes", "merge", "resolve", "sub_begin",
                  "batch_ok", "except", "write_logs"}

\* ------------------------------------------------------------------------
\* Properties of the loader
\* ------------------------------------------------------------------------

\* the relationship filter of the current batch has run
Filtered == pc \in {"sub_begin", "batch_ok"} \/ (pc = "except" /\ ~txOpen)

\* the relationship of the batch that filtered_rels[j] was built from
Original(j) == batch_rels[filtered_src[j]]

Sides == {"start", "end"}
Other(side) == IF side = "start" THEN "end" ELSE "start"

\* the edge that creating `rel` adds to the store
EdgeOf(rel) ==
    [start |-> EndpointId(store, rel.start), type |-> rel.type,
     end |-> EndpointId(store, rel.end), props |-> rel.props]

\* the edges committed since the batch started
BatchEdges == {store.edges[k] : k \in (Len(store0.edges) + 1)..Len(store.edges)}

DocumentsTitled(nodes, title) ==
    {i \in 1..Len(nodes) : /\ "Document" \in nodes[i].labels
                           /\ Has(nodes[i], "title")
                           /\ nodes[i].props["title"] = title}

\* C1 (idempotent Document merge): however often a document of one title is
\* loaded, with or without the Meeting label, the store and the open node
\* transaction hold at most one Document node with that title.
C1_IdempotentDocumentMerge ==
    \A nodes \in {store.nodes, tx.nodes} :
        \A i \in 1..Len(nodes) :
            ("Document" \in nodes[i].labels /\ Has(nodes[i], "title"))
                => DocumentsTitled(nodes, nodes[i].props["title"]) = {i}

\* a meeting document has just been merged into the Document node that an
\* earlier run persisted without the Meeting label
C1_Witness ==
    /\ pc = "resolve"
    /\ runs = 2
    /\ \E ref \in DOMAIN store.bound :
          /\ "Meeting" \in objs[ref].labels
          /\ store.bound[ref] <= Len(store0.nodes)
          /\ "Meeting" \notin store0.nodes[store.bound[ref]].labels
          /\ "Meeting" \in store.nodes[store.bound[ref]].labels

\* the uniqueness key the data model gives every kind of node
DataModelKey(label) ==
    CASE label = "Document" -> "title"
      [] label \in {"Person", "Topic", "Module", "Service", "Team", "BusinessObject"} -> "name"
      [] label \in {"Decision", "ActionItem"} -> "text"
      [] label \in {"Status", "Date"} -> "value"
      [] OTHER -> "-"

\* C2 (node uniqueness): the store never holds two nodes of one kind with
\* the same value of that kind's uniqueness key (title, name, text, value).
C2_NodeUniqueness ==
    \A i, j \in 1..Len(store.nodes) :
        i < j => \A label \in store.nodes[i].labels :
                     DataModelKey(label) # "-"
                        => ~SameKey(store.nodes[i], store.nodes[j], label, DataModelKey(label))

PersonsNamed(nodes, name) ==
    {i \in 1..Len(nodes) : /\ "Person" \in nodes[i].labels
                           /\ Has(nodes[i], "name")
                           /\ nodes[i].props["name"] = name}

ConflictedPerson(ref) ==
    /\ ref \in constraint_failed_nodes
    /\ "Person" \in objs[ref].labels

Range(seq) == {seq[i] : i \in 1..Len(seq)}

\* C4 (node-transaction failure): when the commit of the node transaction
\* raises, no node and no relationship of the batch is persisted, the
\* handler records every relationship of the batch as failed, counts one
\* error, and the run goes on with the next batch.
C4_NodeCommitFailure ==
    [][(pc = "except" /\ txOpen)
          => /\ store.nodes = store0.nodes
             /\ store.edges = store0.edges
             /\ store'.nodes = store.nodes
             /\ store'.edges = store.edges
             /\ ~txOpen'
             /\ \A i \in 1..Len(batch_rels) :
                   [rel |-> batch_rels[i], error |-> "Node transaction failed"]
                       \in Range(failed_rels')
             /\ total_errors' = total_errors + 1
             /\ start' = start + batch_size
             /\ pc' = IF start + batch_size < Len(files) THEN "extract" ELSE "write_logs"]_vars

\* the first batch of a run lost its node commit: nothing is stored, its
\* relationships are on the failed list, and the second batch is being read
C4_Witness ==
    /\ pc = "extract"
    /\ runs = 1
    /\ start > 0
    /\ total_errors = 1
    /\ total_nodes_created = 0
    /\ store.nodes = << >>
    /\ Len(failed_rels) >= 2
    /\ \A k \in 1..Len(failed_rels) : failed_rels[k].error = "Node transaction failed"

\* C5 (sub-batch isolation): a sub-batch whose commit raises is rolled back
\* and changes nothing in the store, the sub-batches committed before it
\* stay committed, the loop goes on with the next sub-batch, and the count
\* of created relationships is the number of edges the committed
\* sub-batches added.
C5_SubBatchIsolation ==
    [][(pc = "sub_begin" /\ pc' # "except")
          => /\ sub_outcomes' = Append(sub_outcomes, "rolled_back")
                   => /\ store'.nodes = store.nodes
                      /\ store'.edges = store.edges
                      /\ rels_created' = rels_created
             /\ SubSeq(store'.edges, 1, Len(store.edges)) = store.edges
             /\ rels_created' - rels_created = Len(store'.edges) - Len(store.edges)
             /\ rels_created' = Len(store'.edges) - Len(store0.edges)
             /\ sub_start' = sub_start + 50
             /\ pc' = IF sub_start + 50 < Len(filtered_rels) THEN "sub_begin" ELSE "batch_ok"]_vars

\* the first sub-batch of fifty was rolled back, the second was committed
\* and its relationships are the ones counted
C5_Witness ==
    /\ pc = "batch_ok"
    /\ sub_outcomes = <<"rolled_back", "committed">>
    /\ Len(filtered_rels) > 50
    /\ rels_created = Len(filtered_rels) - 50
    /\ Len(store.edges) = Len(store0.edges) + rels_created

\* C6 (per-relationship failure): a relationship whose creation raises is
\* recorded as failed; every relationship of the sub-batch is still
\* attempted, in order, and a committed sub-batch adds the relationships
\* that succeeded.
C6_PerRelationshipFailure ==
    pc \in {"sub_begin", "batch_ok"}
       => /\ submitted = Idx(Min(sub_start, Len(filtered_rels)))
          /\ \A k \in 1..Len(raised_at) :
                \E e \in Range(batch_failed_rels) :
                    e.rel = filtered_rels[raised_at[k]]
                       /\ e.error # "Relationship involves failed node"
          /\ (\A o \in Range(sub_outcomes) : o = "committed")
                => /\ rels_created = Len(submitted) - Len(raised_at)
                   /\ Len(store.edges) = Len(store0.edges) + rels_created

\* the first relationship of a sub-batch raised, the ones after it were
\* attempted and committed
C6_Witness ==
    /\ pc = "batch_ok"
    /\ raised_at = <<1>>
    /\ sub_outcomes = <<"committed">>
    /\ Len(submitted) >= 2
    /\ rels_created = Len(submitted) - 1

\* C7 (the run never aborts): no failure of the store makes an exception
\* leave batch_process_files.
C7_RunNeverAborts == pc # "crashed"

TouchesFailedNode(rel) == rel.start \in failed_node_ids \/ rel.end \in failed_node_ids

\* C8 (relationship filtering): a relationship with an end node that failed
\* with a non-constraint error is recorded as failed, is not among the
\* filtered relationships and is never handed to create.
C8_FailedNodeFiltering ==
    Filtered
       => /\ \A i \in 1..Len(batch_rels) :
                TouchesFailedNode(batch_rels[i])
                   => /\ i \notin Range(filtered_src)
                      /\ [rel |-> batch_rels[i], error |-> "Relationship involves failed node"]
                            \in Range(batch_failed_rels)
          /\ \A k \in 1..Len(submitted) : ~TouchesFailedNode(Original(submitted[k]))

\* a batch ends in which a node failed, its relationships were dropped and
\* another relationship of the batch was created
C8_Witness ==
    /\ pc = "batch_ok"
    /\ failed_node_ids # {}
    /\ \E i \in 1..Len(batch_rels) : TouchesFailedNode(batch_rels[i])
    /\ submitted # << >>
    /\ rels_created > 0

\* C9 (replacement rewrite): a rewritten relationship has the type, the
\* direction and the properties of the original; an end node without a
\* replacement is the original one, an end node with a replacement is the
\* replacement.
C9_ReplacementRewrite ==
    Filtered
       => \A j \in 1..Len(filtered_rels) :
              /\ filtered_rels[j].type = Original(j).type
              /\ filtered_rels[j].props = Original(j).props
              /\ \A side \in Sides :
                    filtered_rels[j][side] =
                        IF Original(j)[side] \in DOMAIN node_replacements
                        THEN DbRef(node_replacements[Original(j)[side]])
                        ELSE Original(j)[side]

\* a relationship with properties had both of its end nodes replaced
C9_Witness ==
    /\ Filtered
    /\ \E j \in 1..Len(filtered_rels) :
          /\ Original(j).start \in DOMAIN node_replacements
          /\ Original(j).end \in DOMAIN node_replacements
          /\ Original(j).props # NoProps
          /\ filtered_rels[j].props = Original(j).props
          /\ filtered_rels[j].start[1] = "db"
          /\ filtered_rels[j].end[1] = "db"

IsoDate(s) ==
    /\ Len(s) = 10
    /\ \A i \in 1..10 : IF i \in {5, 8} THEN s[i] = "-" ELSE s[i] \in Digits

\* a node the validator has to reject: a required field of its kind is
\* missing or empty, its date is not dddd-dd-dd, or a text field has fewer
\* than two characters once trimmed
Rejectable(node) ==
    \/ \E label \in node.labels :
          /\ DataModelKey(label) # "-"
          /\ (~Has(node, DataModelKey(label)) \/ node.props[DataModelKey(label)] = EmptyStr)
    \/ Has(node, "date") /\ ~IsoDate(node.props["date"])
    \/ \E f \in {"title", "content", "text", "name"} :
          Has(node, f) /\ Len(Strip(node.props[f])) < 2

\* C10 (validation rejection): a node that fails validation is never handed
\* to merge and is recorded, with its file, among the failed nodes of its
\* batch; when the run returns it is on the run's list and in the
\* failed-nodes log.
C10_ValidationRejection ==
    /\ \A ref \in DOMAIN objs :
          Rejectable(objs[ref])
             => /\ ref \notin merge_calls
                /\ ref \notin Range(batch_nodes)
                /\ \E e \in Range(batch_failed_nodes) :
                      /\ "file" \in DOMAIN e
                      /\ e.file = start + ref[2]
                      /\ e.node = objs[ref].props
    /\ (pc = "idle" /\ returned # << >>)
          => \A x \in extracted :
                 Rejectable(x.node)
                    => \E e \in Range(failed_nodes) :
                          /\ "file" \in DOMAIN e
                          /\ e.file = x.file
                          /\ e.node = x.node.props
                          /\ e \in Range(failed_nodes_log)

\* a run has returned that read a document dated 05-01-2024 and a document
\* without a title; both are in the failed-nodes log with their errors
C10_Witness ==
    /\ pc = "idle"
    /\ returned # << >>
    /\ \E x \in extracted :
          /\ Has(x.node, "date") /\ x.node.props["date"] = Date_DMY
          /\ \E e \in Range(failed_nodes_log) : e.node = x.node.props /\ e.error = "date"
    /\ \E x \in extracted :
          /\ Has(x.node, "title") /\ x.node.props["title"] = EmptyStr
          /\ \E e \in Range(failed_nodes_log) : e.node = x.node.props /\ e.error = "missing"

IsPrefix(s, t) == Len(s) <= Len(t) /\ SubSeq(t, 1, Len(s)) = s

\* C11 (append-only logs): no step removes, changes or reorders a line of
\* the failed-nodes log or of the failed-relationships log; what an earlier
\* run wrote is the beginning of the log after every later run.
C11_LogsAppendOnly ==
    [][/\ IsPrefix(failed_nodes_log, failed_nodes_log')
       /\ IsPrefix(failed_relationships_log, failed_relationships_log')]_vars

Count(seq, x) == Cardinality({k \in 1..Len(seq) : seq[k] = x})

\* every relationship of the batch was created and every sub-batch committed
BatchSucceeded ==
    /\ pc = "batch_ok"
    /\ batch_failed_rels = << >>
    /\ \A o \in Range(sub_outcomes) : o = "committed"

\* C12 (no deduplication of relationships): a batch all of whose
\* relationships were created adds one edge for each of them, whether or
\* not an equal edge is already stored; an edge that was stored k times
\* and is created m times by the batch is stored k + m times afterwards.
C12_RelationshipsNotDeduplicated ==
    BatchSucceeded
       => /\ Len(store.edges) = Len(store0.edges) + Len(batch_rels)
          /\ \A j \in 1..Len(filtered_rels) :
                LET edge == EdgeOf(filtered_rels[j])
                IN  Count(store.edges, edge) =
                        Count(store0.edges, edge)
                          + Cardinality({i \in 1..Len(filtered_rels) :
                                            EdgeOf(filtered_rels[i]) = edge})

\* the second run loaded the document of the first run again: the store
\* holds twice the edges, and an edge of the first load is stored twice
C12_Witness ==
    /\ BatchSucceeded
    /\ runs = 2
    /\ store0.edges # << >>
    /\ Len(store.edges) = 2 * Len(store0.edges)
    /\ \E k \in 1..Len(store0.edges) :
          Count(store.edges, store0.edges[k]) = 2 * Count(store0.edges, store0.edges[k])

\* the in-memory objects of the file in slot k of the batch
ObjectsOf(k) == {ref \in DOMAIN objs : ref[2] = k}

\* C13 (per-file isolation): a file whose loading raises adds no node and
\* no relationship to the batch and one to the error count, and the loop
\* goes on with the next file; at the end of a batch in which nothing else
\* failed, every valid node of the other files that merge accepted is
\* stored and every relationship whose end nodes are stored is committed.
C13_PerFileIsolation ==
    [][/\ (pc = "extract" /\ ~files[start + slot].parses)
             => /\ total_errors' = total_errors + 1
                /\ objs' = objs
                /\ batch_nodes' = batch_nodes
                /\ batch_rels' = batch_rels
                /\ pc' = IF slot < BatchLen THEN "extract" ELSE "begin_nodes"
       /\ (pc = "batch_ok" /\ ~other_fault)
             => /\ \A k \in 1..BatchLen :
                      IF files[start + k].parses
                      THEN ObjectsOf(k) # {}
                      ELSE /\ ObjectsOf(k) = {}
                           /\ \A i \in 1..Len(batch_rels) : batch_rels[i].start[2] # k
                /\ \A i \in 1..Len(batch_nodes) :
                      (MergeKey(objs[batch_nodes[i]]) # "-"
                         /\ batch_nodes[i] \notin constraint_failed_nodes)
                         => /\ EndpointId(store, batch_nodes[i]) # 0
                            /\ objs[batch_nodes[i]].labels
                                  \subseteq store.nodes[EndpointId(store, batch_nodes[i])].labels
                /\ \A j \in 1..Len(filtered_rels) :
                      (/\ EndpointId(store, filtered_rels[j].start) # 0
                       /\ EndpointId(store, filtered_rels[j].end) # 0)
                         => EdgeOf(filtered_rels[j]) \in BatchEdges]_vars

\* a batch of two files ends: the first could not be loaded, the nodes and
\* the relationships of the second are committed
C13_Witness ==
    /\ pc = "batch_ok"
    /\ ~other_fault
    /\ BatchLen = 2
    /\ ~files[start + 1].parses
    /\ files[start + 2].parses
    /\ total_errors = 1
    /\ batch_files_processed = 1
    /\ nodes_created > 0
    /\ batch_rels # << >>
    /\ rels_created = Len(batch_rels)
    /\ \A j \in 1..Len(filtered_rels) : EdgeOf(filtered_rels[j]) \in BatchEdges

\* the node `node` of the extraction is among the objects of the batch, with
\* at least its labels and its properties
Produced(ref, node, objects) ==
    /\ ref \in DOMAIN objects
    /\ objects[ref].labels = node.labels
    /\ \A key \in DOMAIN node.props :
          key \in DOMAIN objects[ref].props /\ objects[ref].props[key] = node.props[key]

\* C14 (collaborator failures degrade gracefully): whatever the embedding
\* service and the follow-up lookup answer, a file that loads adds its
\* Document node (without embedding when the request failed), its other
\* nodes and all its relationships other than FOLLOWS_UP to the batch, and
\* is not counted as an error.
C14_CollaboratorFailuresDegrade ==
    [][(pc = "extract" /\ files[start + slot].parses)
          => LET f == files[start + slot]
                 frag == extract_entities_and_relationships(slot, f)
             IN  /\ \A k \in 1..Len(frag.nodes) : Produced(MemRef(slot, k), frag.nodes[k], objs')
                 /\ \A i \in 1..Len(frag.rels) : frag.rels[i] \in Range(batch_rels')
                 /\ total_errors' = total_errors]_vars

\* the nodes that the node transaction merged are in the committed store
MergedNodesStored ==
    \A i \in 1..Len(batch_nodes) :
        (/\ MergeKey(objs[batch_nodes[i]]) # "-"
         /\ batch_nodes[i] \notin (failed_node_ids \cup constraint_failed_nodes))
           => EndpointId(store, batch_nodes[i]) # 0

\* C15 (phase ordering): relationships are submitted only in the sub-batch
\* phase, after the node transaction of the batch was committed and closed;
\* the sub-batches are taken in list order, each decided (committed or
\* rolled back) before the next is opened; while the node transaction is
\* open nothing has been submitted; and a batch is left for the next one
\* only with every transaction closed and, when it ends normally, with its
\* last sub-batch decided.
C15_PhaseOrdering ==
    [][/\ (Len(submitted') > Len(submitted))
             => /\ pc = "sub_begin"
                /\ ~txOpen
                /\ MergedNodesStored
                /\ sub_start = sub_batch_size * Len(sub_outcomes)
                /\ submitted = Idx(Min(sub_start, Len(filtered_rels)))
                /\ submitted' = submitted \o [i \in 1..Len(SubBatch) |-> sub_start + i]
                /\ Len(sub_outcomes') = Len(sub_outcomes) + 1
       /\ txOpen' => (submitted' = << >> /\ sub_outcomes' = << >> /\ pc' \in {"merge", "except"})
       /\ (pc \in {"batch_ok", "except"})
             => /\ ~txOpen'
                /\ pc' \in {"extract", "write_logs"}
                /\ pc = "batch_ok"
                      => /\ ~txOpen
                         /\ submitted = Idx(Len(filtered_rels))
                         /\ sub_batch_size * Len(sub_outcomes) >= Len(filtered_rels)]_vars

\* the second batch of a run ends after two sub-batches, the second of
\* them rolled back, with every relationship submitted once and in order
C15_Witness ==
    /\ pc = "batch_ok"
    /\ start > 0
    /\ ~txOpen
    /\ Len(filtered_rels) > sub_batch_size
    /\ sub_outcomes = <<"committed", "rolled_back">>
    /\ submitted = Idx(Len(filtered_rels))

\* ------------------------------------------------------------------------
\* generate_meeting_id on its own: the id stored on a Meeting node in one
\* run (lines 794-797) and the id recomputed for a follow-up reference in a
\* later run (lines 861-862)
\* ------------------------------------------------------------------------
MaxTitleLen == 3

\* the strings of at most n characters over the alphabet
StringsOver(alphabet, n) == UNION {[1..k -> alphabet] : k \in 0..n}

MeetingTitles == StringsOver({" ", "P", "p"}, MaxTitleLen)

Date_ISO2 == <<"2", "0", "2", "4", "-", "0", "5", "-", "0", "2">>

\* doc_node.get("date") and extract_date_from_title(ref): None or a date
MeetingDates == {NoneVal, Date_ISO, Date_ISO2}

InitMeetingId ==
    /\ InitState /\ any_node = FALSE /\ collaborators = FALSE
    /\ probe \in [title : MeetingTitles, date : MeetingDates,
                  ref : MeetingTitles, ref_date : MeetingDates,
                  meeting_id : {NoneVal}, ref_id : {NoneVal}]

\* lines 794-797: doc_node["meeting_id"] = generate_meeting_id(title, meeting_date)
AssignMeetingId ==
    /\ probe.meeting_id = NoneVal
    /\ probe' = [probe EXCEPT !.meeting_id = generate_meeting_id(probe.title, probe.date)]
    /\ UNCHANGED loaderVars

\* lines 861-862: ref_id = generate_meeting_id(ref, ref_date), in a later run
RecomputeFollowUpId ==
    /\ probe.meeting_id # NoneVal
    /\ probe.ref_id = NoneVal
    /\ probe' = [probe EXCEPT !.ref_id = generate_meeting_id(probe.ref, probe.ref_date)]
    /\ UNCHANGED loaderVars

NextMeetingId == AssignMeetingId \/ RecomputeFollowUpId

SpecMeetingId == InitMeetingId /\ [][NextMeetingId]_vars

\* C16 (deterministic meeting id): when the title of a meeting and the text
\* of a follow-up reference are equal after strip() and lower(), and their
\* dates are equal (both absent included), the id stored on the Meeting
\* node and the id recomputed for the reference are equal.
C16_DeterministicMeetingId ==
    (probe.meeting_id # NoneVal /\ probe.ref_id # NoneVal)
       => ((Lower(Strip(probe.title)) = Lower(Strip(probe.ref)) /\ probe.date = probe.ref_date)
              => probe.ref_id = probe.meeting_id)

\* a reference written with other case and spacing than the title, and
\* without a date like the meeting, gets the id of the meeting
C16_Witness ==
    /\ probe.meeting_id # NoneVal
    /\ probe.ref_id = probe.meeting_id
    /\ probe.title = <<"P", "p", " ">>
    /\ probe.ref = <<" ", "p", "P">>
    /\ probe.date = NoneVal
    /\ probe.ref_date = NoneVal

\* ------------------------------------------------------------------------
\* Confidence and strength of inferred relationships.  The floats of the
\* source are counted in hundredths: 0.3 is 30, min(0.9, 0.3 + n * 0.1) is
\* Min(90, 30 + n * 10).
\* ------------------------------------------------------------------------
MaxShared == 7

Max(a, b) == IF a > b THEN a ELSE b

\* the co-occurrence confidence that grows without the cap of 0.9
co_occurrence_confidence_Uncapped(co_paragraphs) == 30 + co_paragraphs * 10

\* line 498: rel["confidence"] = min(0.9, 0.3 + (co_paragraphs * 0.1))
co_occurrence_confidence(co_paragraphs) == Min(90, 30 + co_paragraphs * 10)

\* lines 507-551; `direct` says that one of the direct patterns of the
\* relationship type occurs in the content
calculate_relationship_confidence(direct, co_paragraph_count, co_sentence_count) ==
    IF direct THEN 90
    ELSE LET base_confidence == 30
             b1 == IF co_paragraph_count > 0
                   THEN Max(base_confidence, 50 + Min(co_paragraph_count, 5) * 5)
                   ELSE base_confidence
             b2 == IF co_sentence_count > 0
                   THEN Max(b1, 60 + Min(co_sentence_count, 3) * 10)
                   ELSE b1
         IN  Min(90, b2)

\* line 1189: confidence = 0.7
enhancement_confidence == 70

\* line 929: strength = min(1.0, co_occurrences * 0.2)
pairwise_strength(co_occurrences) == Min(100, co_occurrences * 20)

InitConfidence ==
    /\ InitState /\ any_node = FALSE /\ collaborators = FALSE
    /\ probe \in [direct : BOOLEAN, context : BOOLEAN, semantic : BOOLEAN,
                  co_paragraphs : 0..MaxShared, co_sentences : 0..MaxShared,
                  done : {{}}, rels : {<< >>}]

Assigned(step, assigned, kind, value) ==
    probe' = [probe EXCEPT !.done = @ \cup {step},
                           !.rels = IF assigned
                                    THEN Append(@, [kind |-> kind, value |-> value])
                                    ELSE @]

\* lines 476-503: the co-occurrence relationship of two entities that share
\* a context and at least one paragraph
CoOccurrenceRelationship ==
    /\ "co_occurrence" \notin probe.done
    /\ Assigned("co_occurrence", probe.context /\ probe.co_paragraphs > 0,
                "confidence", co_occurrence_confidence(probe.co_paragraphs))
    /\ UNCHANGED loaderVars

\* a call of calculate_relationship_confidence
EstimateConfidence ==
    /\ "estimate" \notin probe.done
    /\ Assigned("estimate", TRUE, "confidence",
                calculate_relationship_confidence(probe.direct, probe.co_paragraphs,
                                                  probe.co_sentences))
    /\ UNCHANGED loaderVars

\* lines 1178-1205: process_relationships sets the confidence of a stored
\* relationship that has a context and a semantic type
EnhanceRelationship ==
    /\ "enhance" \notin probe.done
    /\ Assigned("enhance", probe.context /\ probe.semantic, "confidence", enhancement_confidence)
    /\ UNCHANGED loaderVars

\* lines 925-935: the pairwise RELATES_TO edge, created for a strength
\* above 0.2 and stored as round(strength, 2)
PairwiseRelationship ==
    /\ "pairwise" \notin probe.done
    /\ Assigned("pairwise", pairwise_strength(probe.co_paragraphs) > 20,
                "strength", pairwise_strength(probe.co_paragraphs))
    /\ UNCHANGED loaderVars

NextConfidence ==
    \/ CoOccurrenceRelationship
    \/ EstimateConfidence
    \/ EnhanceRelationship
    \/ PairwiseRelationship

SpecConfidence == InitConfidence /\ [][NextConfidence]_vars

\* C17 (confidence and strength bounds): every confidence assigned lies in
\* [0.3, 0.9], every strength stored on a pairwise edge lies in (0.2, 1.0],
\* and no pairwise edge exists when the strength is 0.2 or less.
C17_ConfidenceStrengthBounds ==
    /\ \A i \in 1..Len(probe.rels) :
          /\ probe.rels[i].kind = "confidence"
                => (30 <= probe.rels[i].value /\ probe.rels[i].value <= 90)
          /\ probe.rels[i].kind = "strength"
                => (20 < probe.rels[i].value /\ probe.rels[i].value <= 100)
    /\ probe.co_paragraphs * 20 <= 20
          => \A i \in 1..Len(probe.rels) : probe.rels[i].kind # "strength"

\* with at least six shared paragraphs and three shared sentences every
\* site has assigned its value: the capped confidence 0.9 twice, 0.7 from
\* the enhancement pass, and the capped strength 1.0
C17_Witness ==
    /\ probe.done = {"co_occurrence", "estimate", "enhance", "pairwise"}
    /\ probe.co_paragraphs >= 6
    /\ probe.co_sentences >= 3
    /\ ~probe.direct
    /\ Len(probe.rels) = 4
    /\ {probe.rels[i] : i \in 1..4} =
          {[kind |-> "confidence", value |-> 90], [kind |-> "confidence", value |-> 70],
           [kind |-> "strength", value |-> 100]}

\* ------------------------------------------------------------------------
\* Entity resolution: normalize_name and is_same_entity
\* ------------------------------------------------------------------------
MaxNameLen == 3

\* \w of the regular expressions: letters, digits and the underscore
IsWordChar(c) ==
    \/ c \in Digits \/ c = "_"
    \/ \E i \in 1..Len(LowerLetters) : c = LowerLetters[i] \/ c = UpperLetters[i]

\* re.sub(r'[^\w\s]', '', s)
RemovePunctuation(s) == SelectSeq(s, LAMBDA c : IsWordChar(c) \/ c \in Whitespace)

\* the alternatives of (mr|mrs|ms|dr|prof|sir), in the order of the pattern
Honorifics == <<<<"m", "r">>, <<"m", "r", "s">>, <<"m", "s">>, <<"d", "r">>,
               <<"p", "r", "o", "f">>, <<"s", "i", "r">>>>

\* \b at position i of s: between s[i-1] and s[i], one a word character
\* and the other not (the ends of the string count as not)
WordBoundary(s, i) ==
    (i > 1 /\ i - 1 <= Len(s) /\ IsWordChar(s[i - 1])) # (i >= 1 /\ i <= Len(s) /\ IsWordChar(s[i]))

\* the length matched at position i by \b(mr|mrs|ms|dr|prof|sir)\b, 0 if none
HonorificAt(s, i) ==
    LET fits(h) == /\ i + Len(h) - 1 <= Len(s)
                   /\ SubSeq(s, i, i + Len(h) - 1) = h
                   /\ WordBoundary(s, i + Len(h))
        matching == {k \in 1..Len(Honorifics) : fits(Honorifics[k])}
    IN  IF WordBoundary(s, i) /\ matching # {}
        THEN Len(Honorifics[MinOf(matching)])
        ELSE 0

\* the position after \.?\s* matched from position i
RECURSIVE SkipSpaces(_, _)
SkipSpaces(s, i) == IF i <= Len(s) /\ s[i] \in Whitespace THEN SkipSpaces(s, i + 1) ELSE i

AfterDotAndSpaces(s, i) == SkipSpaces(s, IF i <= Len(s) /\ s[i] = "." THEN i + 1 ELSE i)

\* re.sub(r'\b(mr|mrs|ms|dr|prof|sir)\b\.?\s*', '', s), from position i on
RECURSIVE RemoveHonorifics(_, _)
RemoveHonorifics(s, i) ==
    IF i > Len(s) THEN << >>
    ELSE IF HonorificAt(s, i) > 0
         THEN RemoveHonorifics(s, AfterDotAndSpaces(s, i + HonorificAt(s, i)))
         ELSE <<s[i]>> \o RemoveHonorifics(s, i + 1)

\* the normalization that keeps the honorifics
normalize_name_KeepsHonorifics(name) ==
    IF name = EmptyStr THEN EmptyStr
    ELSE Strip(RemovePunctuation(Lower(name)))

\* lines 658-666
normalize_name(name) ==
    IF name = EmptyStr THEN EmptyStr
    ELSE Strip(RemoveHonorifics(RemovePunctuation(Lower(name)), 1))

\* s in t
Contains(t, s) == \E k \in 0..(Len(t) - Len(s)) : SubSeq(t, k + 1, k + Len(s)) = s

\* str.split(): the maximal runs of characters that are not whitespace
RECURSIVE Split(_)
Split(s) ==
    LET t == LStrip(s)
        ends == {k \in 1..Len(t) : t[k] \in Whitespace}
        stop == IF ends = {} THEN Len(t) + 1 ELSE MinOf(ends)
    IN  IF t = << >> THEN << >>
        ELSE <<SubSeq(t, 1, stop - 1)>> \o Split(SubSeq(t, stop, Len(t)))

\* the resolver that compares first names longer than 3 characters only
is_same_entity_LongFirstNames(name1, name2) ==
    IF name1 = EmptyStr \/ name2 = EmptyStr THEN FALSE
    ELSE LET n1 == normalize_name(name1)
             n2 == normalize_name(name2)
             parts1 == Split(n1)
             parts2 == Split(n2)
         IN  IF n1 = n2 THEN TRUE
             ELSE IF Len(n1) > 3 /\ Len(n2) > 3 /\ (Contains(n2, n1) \/ Contains(n1, n2)) THEN TRUE
             ELSE IF Len(parts1) > 0 /\ Len(parts2) > 0
                  THEN \/ parts1[1] = parts2[1] /\ Len(parts1[1]) > 3
                       \/ parts1[Len(parts1)] = parts2[Len(parts2)] /\ Len(parts1[Len(parts1)]) > 3
                  ELSE FALSE

\* lines 669-698
is_same_entity(name1, name2) ==
    IF name1 = EmptyStr \/ name2 = EmptyStr THEN FALSE
    ELSE LET n1 == normalize_name(name1)
             n2 == normalize_name(name2)
             parts1 == Split(n1)
             parts2 == Split(n2)
         IN  IF n1 = n2 THEN TRUE
             ELSE IF Len(n1) > 3 /\ Len(n2) > 3 /\ (Contains(n2, n1) \/ Contains(n1, n2)) THEN TRUE
             ELSE IF Len(parts1) > 0 /\ Len(parts2) > 0
                  THEN \/ parts1[1] = parts2[1] /\ Len(parts1[1]) > 2
                       \/ parts1[Len(parts1)] = parts2[Len(parts2)] /\ Len(parts1[Len(parts1)]) > 3
                  ELSE FALSE

N_DrJaneSmith == <<"D", "r", ".", " ", "J", "a", "n", "e", " ", "S", "m", "i", "t", "h">>
N_JaneSmith == <<"J", "a", "n", "e", " ", "S", "m", "i", "t", "h">>
N_JanetBrown == <<"J", "a", "n", "e", "t", " ", "B", "r", "o", "w", "n">>
N_SmithJane == <<"S", "m", "i", "t", "h", ",", " ", "J", "a", "n", "e">>
N_Jane == <<"J", "a", "n", "e">>
N_Dr == <<"D", "r", ".">>
N_Sir == <<"S", "i", "r">>
N_BobLee == <<"B", "o", "b", " ", "L", "e", "e">>
N_BobRay == <<"B", "o", "b", " ", "R", "a", "y">>
N_AmyLee == <<"A", "m", "y", " ", "L", "e", "e">>
N_JoLee == <<"J", "o", " ", "L", "e", "e">>
N_JoRay == <<"J", "o", " ", "R", "a", "y">>
N_Ann == <<"A", "n", "n">>
N_Joann == <<"J", "o", "a", "n", "n">>
N_AlSmith == <<"M", "R", "S", " ", "A", "l", " ", " ", "S", "m", "i", "t", "h", " ">>

\* the person mentions of the model: names that meet each rule and each
\* length threshold, and every short string over a small alphabet
PersonNames ==
    {N_DrJaneSmith, N_JaneSmith, N_JanetBrown, N_SmithJane, N_Jane, N_Dr, N_Sir, N_BobLee,
     N_BobRay, N_AmyLee, N_JoLee, N_JoRay, N_Ann, N_Joann, N_AlSmith}
    \cup StringsOver({"a", "B", " ", "."}, MaxNameLen)

InitResolver ==
    /\ InitState /\ any_node = FALSE /\ collaborators = FALSE
    /\ probe \in [person : PersonNames, existing : PersonNames,
                  norm_name : {NoneVal}, existing_norm_name : {NoneVal},
                  judged : {"pending"}]

\* lines 721 and 730: the names are normalized
NormalizeMentions ==
    /\ probe.norm_name = NoneVal
    /\ probe' = [probe EXCEPT !.norm_name = normalize_name(probe.person),
                              !.existing_norm_name = normalize_name(probe.existing)]
    /\ UNCHANGED loaderVars

\* line 736: is_same_entity(norm_name, existing_norm_name)
ResolveMention ==
    /\ probe.norm_name # NoneVal
    /\ probe.judged = "pending"
    /\ probe' = [probe EXCEPT !.judged =
                    IF is_same_entity(probe.norm_name, probe.existing_norm_name)
                    THEN "same" ELSE "different"]
    /\ UNCHANGED loaderVars

NextResolver == NormalizeMentions \/ ResolveMention

SpecResolver == InitResolver /\ [][NextResolver]_vars

\* the rule of the specification on two normalized names
FirstToken(n) == Split(n)[1]
LastToken(n) == Split(n)[Len(Split(n))]

SameEntityRule(n1, n2) ==
    \/ n1 = n2
    \/ (Contains(n1, n2) \/ Contains(n2, n1)) /\ Len(n1) > 3 /\ Len(n2) > 3
    \/ /\ Split(n1) # << >> /\ Split(n2) # << >>
       /\ \/ FirstToken(n1) = FirstToken(n2) /\ Len(FirstToken(n1)) > 2
          \/ LastToken(n1) = LastToken(n2) /\ Len(LastToken(n1)) > 3

Examples ==
    /\ (probe.person = N_DrJaneSmith /\ probe.existing = N_JaneSmith) => probe.judged = "same"
    /\ (probe.person = N_JaneSmith /\ probe.existing = N_JanetBrown) => probe.judged = "different"

\* C18 as stated (entity resolution rule): two names are judged the same
\* entity exactly when their normalized forms meet the rule.
C18_AsStated ==
    probe.judged # "pending"
       => /\ (probe.judged = "same")
                <=> SameEntityRule(probe.norm_name, probe.existing_norm_name)
          /\ Examples

\* C18 (entity resolution rule, amended): two names whose normalized forms
\* are not empty are judged the same entity exactly when the normalized
\* forms meet the rule; a name whose normalized form is empty is the same
\* entity as no name.
C18_EntityResolutionRule ==
    probe.judged # "pending"
       => /\ (probe.judged = "same")
                <=> /\ probe.norm_name # EmptyStr
                    /\ probe.existing_norm_name # EmptyStr
                    /\ SameEntityRule(probe.norm_name, probe.existing_norm_name)
          /\ Examples

\* "Dr. Jane Smith" is judged the same entity as "Jane Smith"
C18_Witness ==
    /\ probe.person = N_DrJaneSmith
    /\ probe.existing = N_JaneSmith
    /\ probe.norm_name = probe.existing_norm_name
    /\ probe.norm_name = Lower(N_JaneSmith)
    /\ probe.judged = "same"

\* ------------------------------------------------------------------------
\* The meeting branch of extract_entities_and_relationships on the text of
\* a note: extract_participants, extract_decisions_actions and the nodes
\* and relationships built from them (lines 798-850).  The regular
\* expressions are computed on the characters of the content.
\* ------------------------------------------------------------------------
MaxKnown == 2

\* the character U+2022 of the separator classes
Bullet == "bullet"

IsUpper(c) == \E i \in 1..Len(UpperLetters) : c = UpperLetters[i]
IsLowerLetter(c) == \E i \in 1..Len(LowerLetters) : c = LowerLetters[i]
IsLetter(c) == IsUpper(c) \/ IsLowerLetter(c)

\* [A-Za-z\s]
IsNameChar(c) == IsLetter(c) \/ c \in Whitespace

\* s[i..] begins with the lower-case text lit, letters compared without case
MatchesAt(s, i, lit) ==
    /\ i >= 1
    /\ i + Len(lit) - 1 <= Len(s)
    /\ Lower(SubSeq(s, i, i + Len(lit) - 1)) = lit

\* the first position from i on whose character does not satisfy ok
RunEnd(s, i, ok(_)) ==
    LET bad == {k \in i..Len(s) : ~ok(s[k])}
    IN  IF bad = {} THEN Len(s) + 1 ELSE MinOf(bad)

\* re.split on a character class: the pieces between the separators
RECURSIVE SplitOn(_, _)
SplitOn(s, separators) ==
    LET hits == {k \in 1..Len(s) : s[k] \in separators}
    IN  IF hits = {} THEN <<s>>
        ELSE <<SubSeq(s, 1, MinOf(hits) - 1)>>
                 \o SplitOn(SubSeq(s, MinOf(hits) + 1, Len(s)), separators)

RECURSIVE ConcatAll(_)
ConcatAll(seqs) == IF seqs = << >> THEN << >> ELSE Head(seqs) \o ConcatAll(Tail(seqs))

\* [\n<bullet>\-\d+\.] of lines 147, 172 and 178
ItemSeparators == {"\n", Bullet, "-", "+", "."} \cup Digits

DecisionHeadings == <<<<"d", "e", "c", "i", "s", "i", "o", "n", "s">>, <<"d", "e", "c", "i", "s", "i", "o", "n">>, <<"d", "e", "c", "i", "d", "e", "d">>, <<"c", "o", "n", "c", "l", "u", "s", "i", "o", "n">>, <<"a", "g", "r", "e", "e", "d">>>>
ActionHeadings == <<<<"a", "c", "t", "i", "o", "n", "s">>, <<"a", "c", "t", "i", "o", "n", " ", "i", "t", "e", "m", "s">>, <<"n", "e", "x", "t", " ", "s", "t", "e", "p", "s">>, <<"t", "o", "d", "o">>, <<"t", "a", "s", "k", "s">>>>

\* re.findall(r'(?:h1|h2|...):?\s*(.*?)(?:\n\n|\Z)', s, DOTALL | IGNORECASE)
\* from position i on: the captured sections
RECURSIVE FindSections(_, _, _)
FindSections(s, i, heads) ==
    LET headAt(k) == {h \in 1..Len(heads) : MatchesAt(s, k, heads[h])}
        hits == {k \in i..Len(s) : headAt(k) # {}}
    IN  IF hits = {} THEN << >>
        ELSE LET k == MinOf(hits)
                 j0 == k + Len(heads[MinOf(headAt(k))])
                 j1 == IF j0 <= Len(s) /\ s[j0] = ":" THEN j0 + 1 ELSE j0
                 j2 == SkipSpaces(s, j1)
                 ends == {e \in j2..(Len(s) - 1) : s[e] = "\n" /\ s[e + 1] = "\n"}
                 stop == IF ends = {} THEN Len(s) + 1 ELSE MinOf(ends)
             IN  <<SubSeq(s, j2, stop - 1)>> \o FindSections(s, stop + 2, heads)

\* the stripped items of the sections that are longer than 10 characters
SectionItems(sections, separators) ==
    LET pieces == ConcatAll([k \in 1..Len(sections) |-> SplitOn(sections[k], separators)])
        stripped == [k \in 1..Len(pieces) |-> Strip(pieces[k])]
    IN  SelectSeq(stripped, LAMBDA item : Len(item) > 10)

\* r'@([A-Za-z\s]+)'
AtAssignee(item) ==
    LET hits == {k \in 1..(Len(item) - 1) : item[k] = "@" /\ IsNameChar(item[k + 1])}
    IN  IF hits = {} THEN NoneVal
        ELSE SubSeq(item, MinOf(hits) + 1, RunEnd(item, MinOf(hits) + 1, IsNameChar) - 1)

\* r'\(([A-Za-z\s]+)\)'
ParenAssignee(item) ==
    LET closes(k) == RunEnd(item, k + 1, IsNameChar)
        hits == {k \in 1..(Len(item) - 1) :
                    /\ item[k] = "(" /\ IsNameChar(item[k + 1])
                    /\ closes(k) <= Len(item) /\ item[closes(k)] = ")"}
    IN  IF hits = {} THEN NoneVal
        ELSE SubSeq(item, MinOf(hits) + 1, closes(MinOf(hits)) - 1)

\* r'assigned to (\w+)', r'responsible:\s*(\w+)', r'owner:\s*(\w+)'
WordAfter(item, lit, spaces) ==
    LET word(k) == IF spaces THEN SkipSpaces(item, k + Len(lit)) ELSE k + Len(lit)
        hits == {k \in 1..Len(item) :
                    MatchesAt(item, k, lit) /\ word(k) <= Len(item) /\ IsWordChar(item[word(k)])}
    IN  IF hits = {} THEN NoneVal
        ELSE SubSeq(item, word(MinOf(hits)), RunEnd(item, word(MinOf(hits)), IsWordChar) - 1)

\* lines 183-196: the first pattern that matches gives the assignee, stripped
Assignee(item) ==
    LET found == <<AtAssignee(item), ParenAssignee(item),
                   WordAfter(item, <<"a", "s", "s", "i", "g", "n", "e", "d", " ", "t", "o", " ">>, FALSE),
                   WordAfter(item, <<"r", "e", "s", "p", "o", "n", "s", "i", "b", "l", "e", ":">>, TRUE),
                   WordAfter(item, <<"o", "w", "n", "e", "r", ":">>, TRUE)>>
        matched == {k \in 1..Len(found) : found[k] # NoneVal}
    IN  IF matched = {} THEN NoneVal ELSE Strip(found[MinOf(matched)])

\* lines 166-201
extract_decisions_actions(content) ==
    LET items == SectionItems(FindSections(content, 1, ActionHeadings), ItemSeparators)
    IN  [decisions |-> SectionItems(FindSections(content, 1, DecisionHeadings), ItemSeparators),
         actions |-> [k \in 1..Len(items) |-> [text |-> items[k], assignee |-> Assignee(items[k])]]]

\* the terminator (?:\n\n|\n[A-Z][a-z]+:|\nAgenda|\nDiscussion|\n$) of the
\* participant patterns at position k, under IGNORECASE: its length, 0 if
\* it does not match
ParticipantTerminator(s, k) ==
    IF k > Len(s) \/ s[k] # "\n" THEN 0
    ELSE IF k + 1 <= Len(s) /\ s[k + 1] = "\n" THEN 2
    ELSE IF /\ k + 2 <= Len(s) /\ IsLetter(s[k + 1]) /\ IsLetter(s[k + 2])
            /\ RunEnd(s, k + 1, IsLetter) <= Len(s)
            /\ s[RunEnd(s, k + 1, IsLetter)] = ":"
         THEN RunEnd(s, k + 1, IsLetter) - k + 1
    ELSE IF MatchesAt(s, k + 1, <<"a", "g", "e", "n", "d", "a">>) THEN 1 + Len(<<"a", "g", "e", "n", "d", "a">>)
    ELSE IF MatchesAt(s, k + 1, <<"d", "i", "s", "c", "u", "s", "s", "i", "o", "n">>) THEN 1 + Len(<<"d", "i", "s", "c", "u", "s", "s", "i", "o", "n">>)
    ELSE IF k = Len(s) THEN 1
    ELSE 0

\* the positions q + n, ..., q
Desc(q, n) == [i \in 1..(n + 1) |-> q + n + 1 - i]

WsRun(s, i) == SkipSpaces(s, i) - i

\* the positions at which the capture can start after \s*[:\-]?\s* from j0,
\* in the order in which the regex engine tries them
CaptureStarts(s, j0) ==
    LET from(p, rest) ==
            (IF p <= Len(s) /\ s[p] \in {":", "-"} THEN Desc(p + 1, WsRun(s, p + 1)) ELSE << >>)
                \o Desc(p, rest)
    IN  ConcatAll([i \in 1..(WsRun(s, j0) + 1) |-> from(j0 + WsRun(s, j0) + 1 - i, i - 1)])

\* the match of a participant pattern with its heading at position k:
\* whether it matches, what it captures, where the search goes on
ParticipantMatch(s, k, heads) ==
    LET headAt == {h \in 1..Len(heads) : MatchesAt(s, k, heads[h])}
        ends(st) == {e \in st..Len(s) : ParticipantTerminator(s, e) > 0}
        starts == IF headAt = {} THEN << >>
                  ELSE SelectSeq(CaptureStarts(s, k + Len(heads[MinOf(headAt)])),
                                 LAMBDA st : ends(st) # {})
    IN  IF starts = << >> THEN [ok |-> FALSE, text |-> << >>, next |-> k + 1]
        ELSE [ok |-> TRUE,
              text |-> SubSeq(s, starts[1], MinOf(ends(starts[1])) - 1),
              next |-> MinOf(ends(starts[1])) + ParticipantTerminator(s, MinOf(ends(starts[1])))]

\* re.findall of a participant pattern from position i on
RECURSIVE FindLists(_, _, _)
FindLists(s, i, heads) ==
    LET hits == {k \in i..Len(s) : ParticipantMatch(s, k, heads).ok}
    IN  IF hits = {} THEN << >>
        ELSE <<ParticipantMatch(s, MinOf(hits), heads).text>>
                 \o FindLists(s, ParticipantMatch(s, MinOf(hits), heads).next, heads)

StartsWith(s, lit) == Len(lit) <= Len(s) /\ SubSeq(s, 1, Len(lit)) = lit

\* lines 628-632: the names of the lists
ListedNames(lists) ==
    LET pieces == ConcatAll([k \in 1..Len(lists) |-> SplitOn(lists[k], {"\n", ",", ";", Bullet, "-"})])
        names == {Strip(pieces[k]) : k \in 1..Len(pieces)}
    IN  {name \in names :
            /\ 2 < Len(name) /\ Len(name) < 50
            /\ \A lit \in {<<"a", "g", "e", "n", "d", "a">>, <<"d", "i", "s", "c", "u", "s", "s", "i", "o", "n">>, <<"d", "e", "c", "i", "s", "i", "o", "n">>, <<"a", "c", "t", "i", "o", "n">>} :
                  ~StartsWith(Lower(name), lit)}

\* re.match(r'[-<bullet>*]?\s*([A-Z][a-z]+\s+[A-Z][a-z]+)', line): the name, or None
LeadingName(line) ==
    LET p0 == IF line # << >> /\ line[1] \in {"-", Bullet, "*"} THEN 2 ELSE 1
        p1 == SkipSpaces(line, p0)
        e1 == RunEnd(line, p1 + 1, IsLowerLetter)
        p2 == SkipSpaces(line, e1)
        e2 == RunEnd(line, p2 + 1, IsLowerLetter)
    IN  IF /\ p1 + 1 <= Len(line) /\ IsUpper(line[p1]) /\ IsLowerLetter(line[p1 + 1])
           /\ p2 > e1
           /\ p2 + 1 <= Len(line) /\ IsUpper(line[p2]) /\ IsLowerLetter(line[p2 + 1])
        THEN SubSeq(line, p1, e2 - 1)
        ELSE NoneVal

\* lines 620-641, as the set that list(participants) is built from
extract_participants(content) ==
    LET lines == SplitOn(content, {"\n"})
        top == SubSeq(lines, 1, Min(20, Len(lines)))
    IN  ListedNames(FindLists(content, 1, <<<<"p", "a", "r", "t", "i", "c", "i", "p", "a", "n", "t", "s">>, <<"a", "t", "t", "e", "n", "d", "e", "e", "s">>, <<"p", "r", "e", "s", "e", "n", "t">>>>))
            \cup ListedNames(FindLists(content, 1, <<<<"b", "y">>, <<"w", "i", "t", "h">>>>))
            \cup ({LeadingName(top[k]) : k \in 1..Len(top)} \ {NoneVal})

ActionItemNode(f, text) == MkNode({"ActionItem"}, ("text" :> text) @@ DateProp(f, "created_date"))

\* lines 838-844: the first Person node of node_map whose name contains the
\* assignee, letters compared without case; 0 when there is none
AssigneeNode(nodes, assignee) ==
    LET found == {k \in 1..Len(nodes) :
                     /\ "Person" \in nodes[k].labels
                     /\ Truthy(nodes[k], "name")
                     /\ Contains(Lower(nodes[k].props["name"]), Lower(assignee))}
    IN  IF found = {} THEN 0 ELSE MinOf(found)

\* lines 826-850: for i, (action, assignee) in enumerate(actions)
RECURSIVE AddActions(_, _, _, _)
AddActions(place, f, actions, acc) ==
    IF actions = << >> THEN acc
    ELSE LET action == Head(actions).text
             assignee == Head(actions).assignee
             keep == action # EmptyStr /\ Len(action) > 10
             nodes2 == Append(acc.nodes, ActionItemNode(f, action))
             item == Len(nodes2)
             rels2 == Append(acc.rels, MkRel(MemRef(place, 1), "CREATED_ACTION", MemRef(place, item), NoProps))
             assigned == assignee # NoneVal /\ assignee # EmptyStr
             person == AssigneeNode(nodes2, assignee)
             nodes3 == IF assigned /\ person = 0 THEN Append(nodes2, PersonNode(assignee)) ELSE nodes2
             rels3 == IF assigned
                      THEN Append(rels2, MkRel(MemRef(place, item), "ASSIGNED_TO",
                                               MemRef(place, IF person = 0 THEN Len(nodes3) ELSE person),
                                               NoProps))
                      ELSE rels2
             map3 == IF assigned /\ person = 0
                     THEN acc.node_map @@ ((<<"P", "e", "r", "s", "o", "n", ":">> \o assignee) :> Len(nodes3))
                     ELSE acc.node_map
         IN  IF keep
             THEN AddActions(place, f, Tail(actions), [nodes |-> nodes3, rels |-> rels3, node_map |-> map3])
             ELSE AddActions(place, f, Tail(actions), acc)

S_Participants == <<"P", "a", "r", "t", "i", "c", "i", "p", "a", "n", "t", "s", ":", " ", "A", "l", "i", "c", "e", " ", "J", "o", "h", "n", "s", "o", "n", ",", " ", "B", "o", "b", " ", "L", "e", "e">>
S_Attendees == <<"A", "t", "t", "e", "n", "d", "e", "e", "s", " ", "-", " ", "A", "l", "i", "c", "e", " ", "J", "o", "h", "n", "s", "o", "n", ";", " ", "B", "o", "b", " ", "L", "e", "e">>
S_Agenda == <<"A", "g", "e", "n", "d", "a", ":", " ", "D", "i", "s", "c", "u", "s", "s", " ", "Q", "3", " ", "B", "u", "d", "g", "e", "t", " ", "R", "e", "v", "i", "e", "w">>
S_Decisions == <<"D", "e", "c", "i", "s", "i", "o", "n", "s", ":", " ", "A", "p", "p", "r", "o", "v", "e", "d", " ", "t", "h", "e", " ", "Q", "3", " ", "b", "u", "d", "g", "e", "t", " ", "i", "n", "c", "r", "e", "a", "s", "e">>
S_DecisionsPlain == <<"D", "e", "c", "i", "s", "i", "o", "n", "s", ":", " ", "A", "p", "p", "r", "o", "v", "e", "d", " ", "t", "h", "e", " ", "b", "u", "d", "g", "e", "t", " ", "i", "n", "c", "r", "e", "a", "s", "e">>
S_Agreed == <<"A", "g", "r", "e", "e", "d", ":", " ", "k", "e", "e", "p", " ", "t", "h", "e", " ", "p", "l", "a", "n", ".", " ", "R", "e", "v", "i", "e", "w", " ", "t", "h", "e", " ", "b", "u", "d", "g", "e", "t", " ", "i", "n", " ", "M", "a", "y">>
S_Actions == <<"A", "c", "t", "i", "o", "n", " ", "I", "t", "e", "m", "s", ":", " ", "@", "A", "l", "i", "c", "e", " ", "p", "r", "e", "p", "a", "r", "e", " ", "t", "h", "e", " ", "f", "i", "n", "a", "l", " ", "r", "e", "p", "o", "r", "t">>
S_ActionsParen == <<"A", "c", "t", "i", "o", "n", " ", "I", "t", "e", "m", "s", ":", " ", "P", "r", "e", "p", "a", "r", "e", " ", "t", "h", "e", " ", "f", "i", "n", "a", "l", " ", "r", "e", "p", "o", "r", "t", " ", "(", "A", "l", "i", "c", "e", ")">>
S_NextSteps == <<"N", "e", "x", "t", " ", "S", "t", "e", "p", "s", ":", " ", "P", "r", "e", "p", "a", "r", "e", " ", "f", "i", "n", "a", "l", " ", "r", "e", "p", "o", "r", "t", ",", " ", "a", "s", "s", "i", "g", "n", "e", "d", " ", "t", "o", " ", "B", "o", "b">>
S_Tasks == <<"T", "a", "s", "k", "s", ":", " ", "S", "e", "n", "d", " ", "t", "h", "e", " ", "m", "i", "n", "u", "t", "e", "s", " ", "o", "w", "n", "e", "r", ":", " ", "C", "a", "r", "o", "l", " ", "D", "i", "a", "z">>
S_ActionsDash == <<"A", "c", "t", "i", "o", "n", " ", "I", "t", "e", "m", "s", ":", " ", "@", "A", "l", "i", "c", "e", " ", "-", " ", "p", "r", "e", "p", "a", "r", "e", " ", "t", "h", "e", " ", "f", "i", "n", "a", "l", " ", "r", "e", "p", "o", "r", "t">>
N_AliceJohnson == <<"A", "l", "i", "c", "e", " ", "J", "o", "h", "n", "s", "o", "n">>
L_ApprovedQ3 == <<"A", "p", "p", "r", "o", "v", "e", "d", " ", "t", "h", "e", " ", "Q", "3", " ", "b", "u", "d", "g", "e", "t", " ", "i", "n", "c", "r", "e", "a", "s", "e">>
Blank == <<"\n", "\n">>

\* the notes of the model: one section of each kind, separated by blank lines
MeetingContents ==
    {p \o Blank \o S_Agenda \o Blank \o d \o Blank \o a :
        p \in {S_Participants, S_Attendees},
        d \in {S_Decisions, S_DecisionsPlain, S_Agreed},
        a \in {S_Actions, S_ActionsParen, S_NextSteps, S_Tasks, S_ActionsDash}}

C_Scenario == S_Participants \o Blank \o S_Agenda \o Blank \o S_Decisions \o Blank \o S_Actions

\* the Person nodes that the entity extraction before line 790 has put into
\* node_map
KnownPersons == {ps \in SUBSET {N_AliceJohnson, N_BobLee} : Cardinality(ps) <= MaxKnown}

\* the sequences that list the members of a set once each
Orders(S) == {o \in [1..Cardinality(S) -> S] : \A x \in S : \E i \in DOMAIN o : o[i] = x}

NoteFile(content) == MkFile(TRUE, T_Sync, content, NoneVal, TRUE, << >>, << >>, NoneVal, 0)

\* nodes, rels and node_map at line 790, with the known persons in `order`
BeforeMeetingBranch(content, order) ==
    [nodes |-> <<DocNode(NoteFile(content))>> \o [k \in 1..Len(order) |-> PersonNode(order[k])],
     rels |-> [k \in 1..Len(order) |-> MkRel(MemRef(1, 1), "MENTIONS", MemRef(1, k + 1), NoProps)],
     node_map |-> (K_Document :> 1) @@ [name \in {order[k] : k \in 1..Len(order)} |->
                                           1 + CHOOSE k \in 1..Len(order) : order[k] = name]]

InitMeetingNote ==
    /\ InitState /\ any_node = FALSE /\ collaborators = FALSE
    /\ \E content \in MeetingContents, known \in KnownPersons :
          \E order \in Orders(known) :
             probe = [content |-> content, step |-> "start",
                      graph |-> BeforeMeetingBranch(content, order)]

\* lines 798-805; list(participants) has the order of a hash set
MeetingParticipants ==
    /\ probe.step = "start"
    /\ \E order \in Orders(extract_participants(probe.content)) :
          probe' = [probe EXCEPT !.step = "participants",
                                 !.graph = AddParticipants(1, order, probe.graph)]
    /\ UNCHANGED loaderVars

\* lines 815-824
MeetingDecisions ==
    /\ probe.step = "participants"
    /\ probe' = [probe EXCEPT !.step = "decisions",
                    !.graph = AddDecisions(1, NoteFile(probe.content),
                                           extract_decisions_actions(probe.content).decisions,
                                           probe.graph)]
    /\ UNCHANGED loaderVars

\* lines 826-850
MeetingActions ==
    /\ probe.step = "decisions"
    /\ probe' = [probe EXCEPT !.step = "actions",
                    !.graph = AddActions(1, NoteFile(probe.content),
                                         extract_decisions_actions(probe.content).actions,
                                         probe.graph)]
    /\ UNCHANGED loaderVars

NextMeetingNote == MeetingParticipants \/ MeetingDecisions \/ MeetingActions

SpecMeetingNote == InitMeetingNote /\ [][NextMeetingNote]_vars

\* the nodes with label `label` whose property `key` is `value`
NodesWith(label, key, value) ==
    {k \in 1..Len(probe.graph.nodes) :
        /\ label \in probe.graph.nodes[k].labels
        /\ Has(probe.graph.nodes[k], key)
        /\ probe.graph.nodes[k].props[key] = value}

\* a relationship of type `type` from node a to node b
Linked(a, type, b) ==
    \E i \in 1..Len(probe.graph.rels) :
        /\ probe.graph.rels[i].start = MemRef(1, a)
        /\ probe.graph.rels[i].type = type
        /\ probe.graph.rels[i].end = MemRef(1, b)

ScenarioPersons ==
    \A name \in {N_AliceJohnson, N_BobLee} :
        /\ Cardinality(NodesWith("Person", "name", name)) = 1
        /\ \A p \in NodesWith("Person", "name", name) : Linked(1, "ATTENDED_BY", p)

\* C19 (meeting extraction scenario): for the content of the scenario the
\* graph has one Person node each for Alice Johnson and Bob Lee, linked by
\* ATTENDED_BY; a Decision node with the text "Approved the Q3 budget
\* increase" linked by DECIDED; and an ActionItem node linked by
\* CREATED_ACTION, every ASSIGNED_TO edge of which ends at the Person node
\* of Alice Johnson.
C19_MeetingScenario ==
    (probe.content = C_Scenario /\ probe.step = "actions")
       => /\ ScenarioPersons
          /\ \E d \in NodesWith("Decision", "text", L_ApprovedQ3) : Linked(1, "DECIDED", d)
          /\ \E a \in 1..Len(probe.graph.nodes) :
                /\ "ActionItem" \in probe.graph.nodes[a].labels
                /\ Linked(1, "CREATED_ACTION", a)
                /\ \E p \in NodesWith("Person", "name", N_AliceJohnson) : Linked(a, "ASSIGNED_TO", p)
                /\ \A i \in 1..Len(probe.graph.rels) :
                      (probe.graph.rels[i].start = MemRef(1, a) /\ probe.graph.rels[i].type = "ASSIGNED_TO")
                         => probe.graph.rels[i].end[3] \in NodesWith("Person", "name", N_AliceJohnson)

\* ---- evidence carried by submitted relationships ----

\* the evidence properties written at extraction time (lines 443-447): the
\* mention texts of the two ends and the surrounding context
HasEvidence(rel) ==
    \/ "source_text" \in DOMAIN rel.props
    \/ "target_text" \in DOMAIN rel.props
    \/ ("context" \in DOMAIN rel.props /\ rel.props["context"] # EmptyStr)

\* C20 (no relationship without evidence): every relationship handed to
\* sub_tx.create carries source_text, target_text or a non-empty context.
C20_EvidenceOnSubmitted ==
    \A k \in 1..Len(submitted) :
        submitted[k] <= Len(filtered_rels) => HasEvidence(filtered_rels[submitted[k]])

\* ------------------------------------------------------------------------
\* extract_date_from_title on its own (lines 118-138)
\* ------------------------------------------------------------------------
MaxPieces == 4

DateSeparators == {"-", "_"}

\* 20\d{2} at position i
YearAt(s, i) ==
    /\ i >= 1 /\ i + 3 <= Len(s)
    /\ s[i] = "2" /\ s[i + 1] = "0"
    /\ s[i + 2] \in Digits /\ s[i + 3] \in Digits

\* \d{2} at position i
TwoDigitsAt(s, i) == i + 1 <= Len(s) /\ s[i] \in Digits /\ s[i + 1] \in Digits

SeparatorAt(s, i, seps) == i <= Len(s) /\ s[i] \in seps

\* lines 119 and 124: (20\d{2})sep(\d{2})sep(\d{2}), each separator drawn
\* from seps on its own
FullDateAt(s, i, seps) ==
    /\ YearAt(s, i)
    /\ SeparatorAt(s, i + 4, seps) /\ TwoDigitsAt(s, i + 5)
    /\ SeparatorAt(s, i + 7, seps) /\ TwoDigitsAt(s, i + 8)

\* line 129: (20\d{2})[-_](\d{2})
YearMonthAt(s, i) ==
    YearAt(s, i) /\ SeparatorAt(s, i + 4, DateSeparators) /\ TwoDigitsAt(s, i + 5)

\* line 134: \b(20\d{2})\b; a word boundary lies between a word character
\* and a non-word character or an end of the string
BareYearAt(s, i) ==
    /\ YearAt(s, i)
    /\ (i = 1 \/ ~IsWordChar(s[i - 1]))
    /\ (i + 4 > Len(s) \/ ~IsWordChar(s[i + 4]))

Dash == <<"-">>
FirstDay == <<"-", "0", "1">>

\* the bare year pattern is tried before the others
extract_date_from_title_YearFirst(title) ==
    LET year == {i \in 1..Len(title) : BareYearAt(title, i)}
        full == {i \in 1..Len(title) : FullDateAt(title, i, {"-"})}
    IN  IF year # {}
        THEN SubSeq(title, MinOf(year), MinOf(year) + 3) \o FirstDay \o FirstDay
        ELSE IF full # {}
        THEN SubSeq(title, MinOf(full), MinOf(full) + 9)
        ELSE NoneVal

\* lines 118-138: re.search returns the leftmost match of one pattern, and
\* the patterns are tried one after the other
extract_date_from_title(title) ==
    LET full == {i \in 1..Len(title) : FullDateAt(title, i, {"-"})}
        sep == {i \in 1..Len(title) : FullDateAt(title, i, DateSeparators)}
        ym == {i \in 1..Len(title) : YearMonthAt(title, i)}
        year == {i \in 1..Len(title) : BareYearAt(title, i)}
    IN  IF full # {}
        THEN SubSeq(title, MinOf(full), MinOf(full) + 9)
        ELSE IF sep # {}
        THEN SubSeq(title, MinOf(sep), MinOf(sep) + 3) \o Dash
                \o SubSeq(title, MinOf(sep) + 5, MinOf(sep) + 6) \o Dash
                \o SubSeq(title, MinOf(sep) + 8, MinOf(sep) + 9)
        ELSE IF ym # {}
        THEN SubSeq(title, MinOf(ym), MinOf(ym) + 3) \o Dash
                \o SubSeq(title, MinOf(ym) + 5, MinOf(ym) + 6) \o FirstDay
        ELSE IF year # {}
        THEN SubSeq(title, MinOf(year), MinOf(year) + 3) \o FirstDay \o FirstDay
        ELSE NoneVal

\* the pieces that the titles of the model are put together from
DatePieces ==
    {<<" ">>, <<"x">>, <<"2", "0", "2", "4">>, <<"2", "0", "2", "2">>,
     <<"-", "0", "5">>, <<"_", "0", "4">>, <<"-", "0", "1">>}

T_SyncDated == <<"S", "y", "n", "c", " ", "2", "0", "2", "4", "-", "0", "5", "-", "0", "1">>
T_Planning == <<"P", "l", "a", "n", "n", "i", "n", "g", " ", "2", "0", "2", "3", "_", "0", "4">>
T_Kickoff == <<"K", "i", "c", "k", "o", "f", "f", " ", "2", "0", "2", "2">>
T_Notes == <<"N", "o", "t", "e", "s">>

DatedTitles ==
    {ConcatAll(ps) : ps \in UNION {[1..k -> DatePieces] : k \in 0..MaxPieces}}
       \cup {T_SyncDated, T_Planning, T_Kickoff, T_Notes}

Unread == <<"unread">>

InitDate ==
    /\ InitState /\ any_node = FALSE /\ collaborators = FALSE
    /\ probe \in [title : DatedTitles, date : {Unread}]

\* line 242: date = extract_date_from_title(json_data.get("title", ""))
ReadDate ==
    /\ probe.date = Unread
    /\ probe' = [probe EXCEPT !.date = extract_date_from_title(probe.title)]
    /\ UNCHANGED loaderVars

\* the next document: the result is dropped
ForgetDate ==
    /\ probe.date # Unread
    /\ probe' = [probe EXCEPT !.date = Unread]
    /\ UNCHANGED loaderVars

NextDate == ReadDate \/ ForgetDate

SpecDate == InitDate /\ [][NextDate]_vars

\* the four patterns in the order of the claim: where each matches in the
\* title, and the date that a match at position i stands for
DatePatternHits(title, n) ==
    {i \in 1..Len(title) :
        CASE n = 1 -> FullDateAt(title, i, {"-"})
          [] n = 2 -> FullDateAt(title, i, DateSeparators)
          [] n = 3 -> YearMonthAt(title, i)
          [] OTHER -> BareYearAt(title, i)}

DatePatternValue(title, n, i) ==
    LET y == SubSeq(title, i, i + 3)
        m == SubSeq(title, i + 5, i + 6)
        d == SubSeq(title, i + 8, i + 9)
    IN  CASE n \in {1, 2} -> y \o Dash \o m \o Dash \o d
          [] n = 3 -> y \o Dash \o m \o <<"-", "0", "1">>
          [] OTHER -> y \o <<"-", "0", "1", "-", "0", "1">>

\* C21 (date extraction): the result is the date of the leftmost match of
\* the first pattern, in the order full date, date with '-' or '_'
\* separators, year-month (day 01), bare year (month and day 01), that
\* matches anywhere in the title, and none when no pattern matches; the
\* three titles of the examples give 2024-05-01, 2023-04-01 and 2022-01-01.
C21_DateExtraction ==
    probe.date # Unread
       => /\ \A n \in 1..4 :
                (/\ DatePatternHits(probe.title, n) # {}
                 /\ \A earlier \in 1..(n - 1) : DatePatternHits(probe.title, earlier) = {})
                   => probe.date = DatePatternValue(probe.title, n, MinOf(DatePatternHits(probe.title, n)))
          /\ (\A n \in 1..4 : DatePatternHits(probe.title, n) = {}) => probe.date = NoneVal
          /\ probe.title = T_SyncDated => probe.date = Date_ISO
          /\ probe.title = T_Planning
                => probe.date = <<"2", "0", "2", "3", "-", "0", "4", "-", "0", "1">>
          /\ probe.title = T_Kickoff
                => probe.date = <<"2", "0", "2", "2", "-", "0", "1", "-", "0", "1">>
          /\ probe.title = T_Notes => probe.date = NoneVal

\* a title where the bare year matches further left than the year-month:
\* the order of the patterns decides, not the position
C21_Witness ==
    /\ probe.title = <<"2", "0", "2", "2", " ", "2", "0", "2", "4", "-", "0", "5">>
    /\ probe.date = <<"2", "0", "2", "4", "-", "0", "5", "-", "0", "1">>

\* ------------------------------------------------------------------------
\* The split of the filtered relationships into sub-batches on its own
\* (lines 1089-1095).  A relationship is stood for by its position in the
\* filtered list.
\* ------------------------------------------------------------------------
MaxListLen == 151

\* a split that leaves out the incomplete sub-batch at the end
rel_sub_batches_DropsRemainder(rels) ==
    [k \in 1..(Len(rels) \div sub_batch_size) |->
        SubBatchOf(rels, (k - 1) * sub_batch_size, sub_batch_size)]

\* line 1092: [filtered_rels[i:i + sub_batch_size]
\*             for i in range(0, len(filtered_rels), sub_batch_size)]
rel_sub_batches(rels) ==
    [k \in 1..((Len(rels) + sub_batch_size - 1) \div sub_batch_size) |->
        SubBatchOf(rels, (k - 1) * sub_batch_size, sub_batch_size)]

InitPartition ==
    /\ InitState /\ any_node = FALSE /\ collaborators = FALSE
    /\ probe \in [rels : {Idx(n) : n \in 0..MaxListLen}, step : {"filtered"},
                  batches : {<< >>}, opened : {0}]

\* lines 1089-1092: the list is split when it is not empty
SplitFiltered ==
    /\ probe.step = "filtered"
    /\ probe' = IF probe.rels # << >>
                THEN [probe EXCEPT !.step = "loop", !.batches = rel_sub_batches(probe.rels)]
                ELSE [probe EXCEPT !.step = "done"]
    /\ UNCHANGED loaderVars

\* lines 1094-1095: for sub_batch in rel_sub_batches: sub_tx = graph.begin()
OpenSubTx ==
    /\ probe.step = "loop"
    /\ probe.opened < Len(probe.batches)
    /\ probe' = [probe EXCEPT !.opened = probe.opened + 1]
    /\ UNCHANGED loaderVars

\* the loop over the sub-batches is exhausted
LeaveSubBatches ==
    /\ probe.step = "loop"
    /\ probe.opened = Len(probe.batches)
    /\ probe' = [probe EXCEPT !.step = "done"]
    /\ UNCHANGED loaderVars

NextPartition == SplitFiltered \/ OpenSubTx \/ LeaveSubBatches

SpecPartition == InitPartition /\ [][NextPartition]_vars

\* C22 (sub-batch partition): once the list is split, every sub-batch holds
\* at most 50 relationships, every sub-batch but the last exactly 50, and
\* the sub-batches in order make up the filtered list; for an empty
\* list no sub-batch transaction is ever opened, and when the loop is left
\* one transaction was opened per sub-batch.
C22_SubBatchPartition ==
    /\ probe.step # "filtered"
          => /\ \A k \in 1..Len(probe.batches) :
                   /\ Len(probe.batches[k]) <= 50
                   /\ Len(probe.batches[k]) >= 1
                   /\ k < Len(probe.batches) => Len(probe.batches[k]) = 50
             /\ ConcatAll(probe.batches) = probe.rels
    /\ probe.rels = << >> => probe.opened = 0
    /\ probe.step = "done" => probe.opened = Len(probe.batches)

\* 120 relationships: two sub-batches of 50 and one of 20, each with its
\* transaction
C22_Witness ==
    /\ probe.step = "done"
    /\ Len(probe.rels) = 120
    /\ Len(probe.batches) = 3
    /\ Len(probe.batches[3]) = 20
    /\ probe.opened = 3

\* ------------------------------------------------------------------------
\* classify_document_type on its own (lines 298-325)
\* ------------------------------------------------------------------------
MaxClassPieces == 2

\* kw in text
Occurs(kw, text) ==
    \E k \in 1..(Len(text) - Len(kw) + 1) :
        text[k] = kw[1] /\ SubSeq(text, k, k + Len(kw) - 1) = kw

\* s[:n]
Take(s, n) == SubSeq(s, 1, Min(n, Len(s)))

\* lines 300-310, in the order of declaration
doc_types == <<
    [type |-> "Meeting",
     keywords |-> <<<<"m", "e", "e", "t", "i", "n", "g">>,
                   <<"n", "o", "t", "e", "s">>,
                   <<"m", "i", "n", "u", "t", "e", "s">>,
                   <<"d", "i", "s", "c", "u", "s", "s", "i", "o", "n">>,
                   <<"s", "y", "n", "c">>,
                   <<"w", "o", "r", "k", "s", "h", "o", "p">>,
                   <<"k", "i", "c", "k", "-", "o", "f", "f">>,
                   <<"s", "e", "s", "s", "i", "o", "n">>,
                   <<"b", "r", "a", "i", "n", "s", "t", "o", "r", "m", "i", "n", "g">>>>],
    [type |-> "Design",
     keywords |-> <<<<"d", "e", "s", "i", "g", "n">>,
                   <<"a", "r", "c", "h", "i", "t", "e", "c", "t", "u", "r", "e">>,
                   <<"b", "l", "u", "e", "p", "r", "i", "n", "t">>,
                   <<"s", "t", "r", "u", "c", "t", "u", "r", "e">>,
                   <<"f", "r", "a", "m", "e", "w", "o", "r", "k">>,
                   <<"p", "a", "t", "t", "e", "r", "n">>>>],
    [type |-> "Planning",
     keywords |-> <<<<"r", "o", "a", "d", "m", "a", "p">>,
                   <<"p", "l", "a", "n">>,
                   <<"s", "t", "r", "a", "t", "e", "g", "y">>,
                   <<"t", "i", "m", "e", "l", "i", "n", "e">>,
                   <<"m", "i", "l", "e", "s", "t", "o", "n", "e">>,
                   <<"s", "c", "h", "e", "d", "u", "l", "e">>,
                   <<"p", "r", "o", "j", "e", "c", "t", " ", "p", "l", "a", "n">>>>],
    [type |-> "Review",
     keywords |-> <<<<"r", "e", "v", "i", "e", "w">>,
                   <<"r", "e", "t", "r", "o", "s", "p", "e", "c", "t", "i", "v", "e">>,
                   <<"p", "o", "s", "t", "m", "o", "r", "t", "e", "m">>,
                   <<"a", "n", "a", "l", "y", "s", "i", "s">>,
                   <<"a", "s", "s", "e", "s", "s", "m", "e", "n", "t">>,
                   <<"e", "v", "a", "l", "u", "a", "t", "i", "o", "n">>>>],
    [type |-> "Requirements",
     keywords |-> <<<<"r", "e", "q", "u", "i", "r", "e", "m", "e", "n", "t", "s">>,
                   <<"s", "p", "e", "c", "i", "f", "i", "c", "a", "t", "i", "o", "n", "s">>,
                   <<"u", "s", "e", "r", " ", "s", "t", "o", "r", "i", "e", "s">>,
                   <<"b", "a", "c", "k", "l", "o", "g">>,
                   <<"f", "e", "a", "t", "u", "r", "e">>,
                   <<"e", "p", "i", "c">>>>],
    [type |-> "Technical",
     keywords |-> <<<<"t", "e", "c", "h", "n", "i", "c", "a", "l">>,
                   <<"i", "m", "p", "l", "e", "m", "e", "n", "t", "a", "t", "i", "o", "n">>,
                   <<"c", "o", "d", "e">>,
                   <<"s", "o", "l", "u", "t", "i", "o", "n">>,
                   <<"d", "e", "v", "e", "l", "o", "p", "m", "e", "n", "t">>,
                   <<"a", "l", "g", "o", "r", "i", "t", "h", "m">>>>],
    [type |-> "Process",
     keywords |-> <<<<"p", "r", "o", "c", "e", "s", "s">>,
                   <<"w", "o", "r", "k", "f", "l", "o", "w">>,
                   <<"p", "r", "o", "c", "e", "d", "u", "r", "e">>,
                   <<"g", "u", "i", "d", "e">>,
                   <<"s", "t", "a", "n", "d", "a", "r", "d">>,
                   <<"p", "r", "o", "t", "o", "c", "o", "l">>>>],
    [type |-> "Brainstorming",
     keywords |-> <<<<"b", "r", "a", "i", "n", "s", "t", "o", "r", "m", "i", "n", "g">>,
                   <<"i", "d", "e", "a", "t", "i", "o", "n">>,
                   <<"i", "d", "e", "a", "s">>,
                   <<"c", "r", "e", "a", "t", "i", "v", "e">>,
                   <<"c", "o", "n", "c", "e", "p", "t">>>>],
    [type |-> "Documentation",
     keywords |-> <<<<"d", "o", "c", "u", "m", "e", "n", "t", "a", "t", "i", "o", "n">>,
                   <<"m", "a", "n", "u", "a", "l">>,
                   <<"g", "u", "i", "d", "e">>,
                   <<"h", "a", "n", "d", "b", "o", "o", "k">>,
                   <<"r", "e", "f", "e", "r", "e", "n", "c", "e">>>>]>>

\* line 313: content[:3000]
sample_len == 3000

\* line 313: content[:3000].lower() if content else ""
content_sample(content) ==
    IF content = NoneVal \/ content = EmptyStr THEN EmptyStr
    ELSE LET cut == Take(content, sample_len)
         IN  SubSeq(Lower(cut), 1, Len(cut))

\* sum(weight for kw in keywords if kw in text)
RECURSIVE SumHits(_, _, _)
SumHits(keywords, text, weight) ==
    IF keywords = << >> THEN 0
    ELSE (IF Occurs(Head(keywords), text) THEN weight ELSE 0)
            + SumHits(Tail(keywords), text, weight)

\* lines 315-319
type_scores(title, content) ==
    LET title_lower == SubSeq(Lower(title), 1, Len(title))
        sample == content_sample(content)
    IN  [i \in 1..Len(doc_types) |->
            SumHits(doc_types[i].keywords, title_lower, 3)
               + SumHits(doc_types[i].keywords, sample, 1)]

\* a maximum that a later type of equal score takes over
RECURSIVE MaxByScore_LastWins(_, _, _)
MaxByScore_LastWins(scores, i, best) ==
    IF i > Len(scores) THEN best
    ELSE MaxByScore_LastWins(scores, i + 1, IF scores[i] >= scores[best] THEN i ELSE best)

\* line 321: max(type_scores.items(), key=lambda x: x[1]) keeps the first
\* item of maximal score in the order of the dict
RECURSIVE MaxByScore(_, _, _)
MaxByScore(scores, i, best) ==
    IF i > Len(scores) THEN best
    ELSE MaxByScore(scores, i + 1, IF scores[i] > scores[best] THEN i ELSE best)

\* lines 321-324
classify_document_type(title, content) ==
    LET scores == type_scores(title, content)
        best == MaxByScore(scores, 2, 1)
    IN  IF scores[best] > 0
        THEN [type |-> doc_types[best].type, confidence |-> scores[best]]
        ELSE [type |-> "Document", confidence |-> 0]

ClassPieces ==
    {<<"S", "y", "n", "c">>, <<"D", "e", "s", "i", "g", "n">>, <<" ", "p", "l", "a", "n">>,
     <<"G", "u", "i", "d", "e">>, <<"r", "e", "v", "i", "e", "w">>,
     <<"p", "r", "o", "j", "e", "c", "t">>, <<"x">>}

ClassTexts ==
    {ConcatAll(ps) : ps \in UNION {[1..k -> ClassPieces] : k \in 0..MaxClassPieces}}

W_Sync == <<"s", "y", "n", "c">>

\* contents longer than the sample: "sync" ends at character 3000, and
\* "sync" starts at character 2999
C_KeywordInside == [i \in 1..(sample_len - 4) |-> " "] \o W_Sync
C_KeywordCut == [i \in 1..(sample_len - 2) |-> " "] \o W_Sync

\* the long contents are read with a title without keyword and with one
LongTitles == {EmptyStr, <<"G", "u", "i", "d", "e">>}

InitClassify ==
    /\ InitState /\ any_node = FALSE /\ collaborators = FALSE
    /\ probe \in [title : ClassTexts, content : ClassTexts \cup {NoneVal},
                  step : {"read"}, type : {"?"}, type_confidence : {0}]
                 \cup [title : LongTitles, content : {C_KeywordInside, C_KeywordCut},
                       step : {"read"}, type : {"?"}, type_confidence : {0}]

\* lines 238-239: doc_node["type"], confidence = classify_document_type(title, content)
ClassifyDocument ==
    /\ probe.step = "read"
    /\ LET r == classify_document_type(probe.title, probe.content)
       IN  probe' = [probe EXCEPT !.step = "classified", !.type = r.type,
                                  !.type_confidence = r.confidence]
    /\ UNCHANGED loaderVars

\* the next document: the verdict is dropped
ForgetType ==
    /\ probe.step = "classified"
    /\ probe' = [probe EXCEPT !.step = "read", !.type = "?", !.type_confidence = 0]
    /\ UNCHANGED loaderVars

NextClassify == ClassifyDocument \/ ForgetType

SpecClassify == InitClassify /\ [][NextClassify]_vars

\* the score of the claim: 3 for each keyword of the type found in the
\* title plus 1 for each found in the first 3,000 characters of content,
\* both in lower case
ClaimedScore(i, title, content) ==
    LET head == IF content = NoneVal THEN EmptyStr
                ELSE SubSeq(Lower(content), 1, IF Len(content) < 3000 THEN Len(content) ELSE 3000)
        lowered == SubSeq(Lower(title), 1, Len(title))
        kws == doc_types[i].keywords
    IN  3 * Cardinality({k \in 1..Len(kws) : Occurs(kws[k], lowered)})
           + Cardinality({k \in 1..Len(kws) : Occurs(kws[k], head)})

\* C25 (document classification): the returned type has the maximum score
\* and no type declared before it has that score; its confidence is that
\* score; when every score is 0 the result is "Document" with confidence 0.
C25_Classification ==
    probe.step = "classified"
       => LET score(i) == ClaimedScore(i, probe.title, probe.content)
              types == 1..Len(doc_types)
          IN  IF \A i \in types : score(i) = 0
              THEN probe.type = "Document" /\ probe.type_confidence = 0
              ELSE \E b \in types :
                      /\ probe.type = doc_types[b].type
                      /\ probe.type_confidence = score(b)
                      /\ \A i \in types : score(i) <= score(b)
                      /\ \A i \in 1..(b - 1) : score(i) < score(b)

\* "Guide" in the title scores 3 for Process and for Documentation, and
\* Process is declared first; the content adds nothing
C25_Witness ==
    /\ probe.title = <<"G", "u", "i", "d", "e">>
    /\ probe.content = C_KeywordCut
    /\ probe.step = "classified"
    /\ probe.type = "Process"
    /\ probe.type_confidence = 3

\* ------------------------------------------------------------------------
\* The meeting branch of extract_entities_and_relationships as a whole
\* (lines 603-617 and 790-868): the verdict of is_meeting_note and of the
\* classifier, the marking of the Document node and the edges of the
\* branch.  The answer of extract_meeting_topics, which asks the NLP model
\* for noun phrases, and the answer of the store to the follow-up query are
\* choices of the environment.
\* ------------------------------------------------------------------------

\* line 605
meeting_keywords ==
    <<<<"m", "e", "e", "t", "i", "n", "g">>,
      <<"m", "i", "n", "u", "t", "e", "s">>,
      <<"k", "i", "c", "k", "-", "o", "f", "f">>,
      <<"w", "o", "r", "k", "s", "h", "o", "p">>,
      <<"s", "y", "n", "c">>,
      <<"s", "e", "s", "s", "i", "o", "n">>,
      <<"s", "t", "a", "n", "d", "u", "p">>,
      <<"r", "e", "v", "i", "e", "w">>,
      <<"r", "e", "t", "r", "o", "s", "p", "e", "c", "t", "i", "v", "e">>,
      <<"n", "o", "t", "e", "s">>,
      <<"c", "a", "l", "l">>,
      <<"d", "i", "s", "c", "u", "s", "s", "i", "o", "n">>>>

\* line 615
meeting_sections ==
    <<<<"p", "a", "r", "t", "i", "c", "i", "p", "a", "n", "t", "s">>,
      <<"a", "t", "t", "e", "n", "d", "e", "e", "s">>,
      <<"a", "g", "e", "n", "d", "a">>,
      <<"d", "e", "c", "i", "s", "i", "o", "n", "s">>,
      <<"a", "c", "t", "i", "o", "n", " ", "i", "t", "e", "m", "s">>,
      <<"n", "e", "x", "t", " ", "s", "t", "e", "p", "s">>>>

\* line 612: content_l[:500]
heuristic_len == 500

\* lines 603-617
is_meeting_note(title, content) ==
    LET title_l == SubSeq(Lower(title), 1, Len(title))
        content_l == SubSeq(Lower(content), 1, Len(content))
        head == Take(content_l, heuristic_len)
    IN  \/ \E i \in 1..Len(meeting_keywords) : Occurs(meeting_keywords[i], title_l)
        \/ \E i \in 1..Len(meeting_keywords) : Occurs(meeting_keywords[i], head)
        \/ \E i \in 1..Len(meeting_sections) : Occurs(meeting_sections[i], content_l)

\* follow[- ]?up to, in lower case
FollowUpHeads ==
    <<<<"f", "o", "l", "l", "o", "w", "-", "u", "p", " ", "t", "o", " ">>,
      <<"f", "o", "l", "l", "o", "w", " ", "u", "p", " ", "t", "o", " ">>,
      <<"f", "o", "l", "l", "o", "w", "u", "p", " ", "t", "o", " ">>>>

\* line 859: re.findall(r'follow[- ]?up to ([^\n\r]+)', content, re.IGNORECASE)
\* finds a reference
has_followup(content) ==
    LET content_l == SubSeq(Lower(content), 1, Len(content))
    IN  \E i \in 1..Len(FollowUpHeads), k \in 1..Len(content) :
           /\ k + Len(FollowUpHeads[i]) <= Len(content)
           /\ SubSeq(content_l, k, k + Len(FollowUpHeads[i]) - 1) = FollowUpHeads[i]
           /\ content[k + Len(FollowUpHeads[i])] \notin {"\n", "\r"}

TopicNode(name) == MkNode({"Topic"}, "name" :> name)

\* lines 807-813
RECURSIVE AddTopics(_, _, _)
AddTopics(place, topics, acc) ==
    IF topics = << >> THEN acc
    ELSE LET topic == Head(topics)
             nodes2 == Append(acc.nodes, TopicNode(topic))
             rels2 == Append(acc.rels, MkRel(MemRef(place, 1), "DISCUSSES", MemRef(place, Len(nodes2)), NoProps))
             map2 == acc.node_map @@ ((<<"T", "o", "p", "i", "c", ":">> \o topic) :> Len(nodes2))
         IN  IF Len(topic) > 5
             THEN AddTopics(place, Tail(topics), [nodes |-> nodes2, rels |-> rels2, node_map |-> map2])
             ELSE AddTopics(place, Tail(topics), acc)

\* the file as the branch reads it: the date is the one found in the title
MarkedFile(title, content, is_meeting) ==
    MkFile(TRUE, title, content, NoneVal, is_meeting, << >>, << >>,
           extract_date_from_title(title), 0)

\* lines 798-866 for a document that is a meeting: participants in the
\* order `order`, topics, decisions, actions, attendance, and the
\* FOLLOWS_UP edge when the store returned a meeting
MeetingEdges(f, order, topics, found) ==
    LET found_items == extract_decisions_actions(f.content)
        a0 == [nodes |-> <<DocNode(f)>>, rels |-> << >>, node_map |-> (K_Document :> 1)]
        a1 == AddTopics(1, topics, AddParticipants(1, order, a0))
        a2 == AddActions(1, f, found_items.actions, AddDecisions(1, f, found_items.decisions, a1))
        a3 == MarkAttendance(1, f, order, a2)
    IN  IF found
        THEN [a3 EXCEPT !.rels = Append(a3.rels, MkRel(MemRef(1, 1), "FOLLOWS_UP", DbRef(1), NoProps))]
        ELSE a3

\* a branch that is entered on the verdict of is_meeting_note alone
meeting_branch_HeuristicOnly(title, content, type, heuristic, order, topics, found) ==
    IF heuristic
    THEN MeetingEdges(MarkedFile(title, content, TRUE), order, topics, found)
    ELSE [nodes |-> <<DocNode(MarkedFile(title, content, FALSE))>>, rels |-> << >>,
          node_map |-> (K_Document :> 1)]

\* lines 791-792: is_meeting = is_meeting_note(title, content) or
\* doc_node.get("type") == "Meeting"; if is_meeting: ...
meeting_branch(title, content, type, heuristic, order, topics, found) ==
    IF heuristic \/ type = "Meeting"
    THEN MeetingEdges(MarkedFile(title, content, TRUE), order, topics, found)
    ELSE [nodes |-> <<DocNode(MarkedFile(title, content, FALSE))>>, rels |-> << >>,
          node_map |-> (K_Document :> 1)]

T_Brainstorming == <<"B", "r", "a", "i", "n", "s", "t", "o", "r", "m", "i", "n", "g">>
T_Roadmap == <<"R", "o", "a", "d", "m", "a", "p">>
C_Names == <<"A", "l", "i", "c", "e", " ", "J", "o", "h", "n", "s", "o", "n", "\n", "B", "u", "d", "g", "e", "t">>
C_Recall == <<"R", "e", "c", "a", "l", "l", " ", "t", "h", "e", " ", "b", "u", "d", "g", "e", "t">>
C_Budget == <<"B", "u", "d", "g", "e", "t", " ", "o", "k">>
C_FollowsPlan == <<"A", "l", "i", "c", "e", " ", "J", "o", "h", "n", "s", "o", "n", "\n", "f", "o", "l", "l", "o", "w", "-", "u", "p", " ", "t", "o", " ", "P", "l", "a", "n">>
Topic_Budget == <<"B", "u", "d", "g", "e", "t", " ", "R", "e", "v", "i", "e", "w">>

MarkingTitles == {T_SyncDated, T_Brainstorming, T_Roadmap, T_Planning, T_Notes, T_X}

\* contents without and with keywords and sections; in the last two the
\* keyword or the section lies behind the first 500 characters
MarkingContents ==
    {EmptyStr, C_Names, C_Recall, C_Budget, C_FollowsPlan, C_Scenario, S_Participants,
     [i \in 1..heuristic_len |-> " "] \o W_Sync,
     [i \in 1..heuristic_len |-> " "] \o S_Participants}

\* what extract_meeting_topics may return
TopicOutcomes == {<< >>, <<Topic_Budget>>}

NoGraph == [nodes |-> << >>, rels |-> << >>, node_map |-> EmptyFcn]

InitMarking ==
    /\ InitState /\ any_node = FALSE /\ collaborators = FALSE
    /\ probe \in [title : MarkingTitles, content : MarkingContents, topics : TopicOutcomes,
                  step : {"start"}, type : {"?"}, heuristic : {FALSE}, participants : {{}},
                  graph : {NoGraph}]

\* lines 238 and 791: the classifier and is_meeting_note give their verdicts
JudgeDocument ==
    /\ probe.step = "start"
    /\ probe' = [probe EXCEPT !.step = "judged",
                    !.type = classify_document_type(probe.title, probe.content).type,
                    !.heuristic = is_meeting_note(probe.title, probe.content)]
    /\ UNCHANGED loaderVars

\* lines 792-866 without a follow-up reference, or with one that the store
\* answers with no meeting or with one
RunMeetingBranch ==
    /\ probe.step = "judged"
    /\ \E order \in Orders(extract_participants(probe.content)),
          found \in (IF has_followup(probe.content) THEN BOOLEAN ELSE {FALSE}) :
          probe' = [probe EXCEPT !.step = "done",
                       !.participants = {order[k] : k \in 1..Len(order)},
                       !.graph = meeting_branch(probe.title, probe.content, probe.type,
                                                probe.heuristic, order, probe.topics, found)]
    /\ UNCHANGED loaderVars

\* line 863 raises for a meeting with a follow-up reference: the fragment
\* of the file is lost
FollowUpQueryRaises ==
    /\ probe.step = "judged"
    /\ probe.heuristic \/ probe.type = "Meeting"
    /\ has_followup(probe.content)
    /\ probe' = [probe EXCEPT !.step = "raised"]
    /\ UNCHANGED loaderVars

NextMarking == JudgeDocument \/ RunMeetingBranch \/ FollowUpQueryRaises

SpecMarking == InitMarking /\ [][NextMarking]_vars

MeetingEdgeTypes == {"ATTENDED_BY", "DISCUSSES", "DECIDED", "CREATED_ACTION", "FOLLOWS_UP"}

AttendanceEdges == {i \in 1..Len(probe.graph.rels) : probe.graph.rels[i].type = "ATTENDED_BY"}

\* C24 (attendance edges carry the date): for a meeting document with a
\* date, every ATTENDED_BY edge of the fragment has an on_date equal to the
\* date of the document, and each extracted participant is the end of
\* exactly one ATTENDED_BY edge.
C24_AttendanceCarriesDate ==
    (/\ probe.step = "done"
     /\ "Meeting" \in probe.graph.nodes[1].labels
     /\ Has(probe.graph.nodes[1], "date"))
       => /\ \A i \in AttendanceEdges :
                /\ "on_date" \in DOMAIN probe.graph.rels[i].props
                /\ probe.graph.rels[i].props["on_date"] = probe.graph.nodes[1].props["date"]
          /\ \A person \in probe.participants :
                Cardinality({i \in AttendanceEdges :
                                probe.graph.nodes[probe.graph.rels[i].end[3]].props["name"] = person}) = 1

\* ------------------------------------------------------------------------
\* The batch loader again: the ends of submitted relationships, the
\* accounting of relationships and failures
\* ------------------------------------------------------------------------

\* the nodes of the batch that tx_nodes.merge took without raising
MergedRefs == merge_calls \ (constraint_failed_nodes \cup failed_node_ids)

\* C26 (submitted relationships have persisted ends): each end of a
\* relationship handed to sub_tx.create is a node that was merged without
\* error in the node transaction of the batch, or a node read from the
\* store.
C26_SubmittedEndsPersisted ==
    \A k \in 1..Len(submitted) :
        (submitted[k] <= Len(filtered_rels) /\ submitted[k] <= Len(filtered_src))
           => \A side \in Sides :
                 \/ filtered_rels[submitted[k]][side][1] = "db"
                 \/ filtered_rels[submitted[k]][side] \in MergedRefs

\* the relationship at position i of batch_rels was created in a sub-batch
\* that committed
PersistedAt(i) ==
    \E j \in 1..Len(filtered_src) :
        /\ filtered_src[j] = i
        /\ \E k \in 1..Len(submitted) : submitted[k] = j
        /\ \A k \in 1..Len(raised_at) : raised_at[k] # j
        /\ ((j - 1) \div sub_batch_size) + 1 <= Len(sub_outcomes)
        /\ sub_outcomes[((j - 1) \div sub_batch_size) + 1] = "committed"

\* the relationship at position i of batch_rels, as extracted or as
\* rewritten by the filter, has a record in batch_failed_rels
RecordedAt(i) ==
    \E r \in 1..Len(batch_failed_rels) :
        \/ batch_failed_rels[r].rel = batch_rels[i]
        \/ \E j \in 1..Len(filtered_src) :
              filtered_src[j] = i /\ batch_failed_rels[r].rel = filtered_rels[j]

\* C27 (relationship accounting): when the relationship phase of a batch
\* is over, every relationship extracted for the batch was persisted by a
\* committed sub-batch or has a record in the failed relationships of the
\* batch.
C27_RelationshipAccounting ==
    pc = "batch_ok" => \A i \in 1..Len(batch_rels) : PersistedAt(i) \/ RecordedAt(i)

\* C28 (each failure is logged once): the step that ends a batch adds one
\* record to the failure lists of the run for every failed-node record and
\* every failed-relationship record of the batch, the records of the
\* handler of a batch exception included, and no more.
C28_FailuresLoggedOnce ==
    [][(pc \in {"batch_ok", "except"} /\ pc' \notin {"batch_ok", "except"})
          => /\ Len(failed_nodes') = Len(failed_nodes) + Len(batch_failed_nodes)
             /\ Len(failed_rels') = Len(failed_rels) + Len(batch_failed_rels)
                   + (IF pc = "except" THEN Len(batch_rels) ELSE 0)]_vars

\* C29 (the batch handler runs before anything is committed): when the
\* handler of a batch exception is reached, no relationship sub-batch of
\* the batch has committed and the store holds no node or edge that it did
\* not hold when the batch began.
C29_HandlerBeforeCommit ==
    pc = "except"
       => /\ \A k \in 1..Len(sub_outcomes) : sub_outcomes[k] # "committed"
          /\ store.nodes = store0.nodes
          /\ store.edges = store0.edges

\* C30 (conflicting ends are replaced or the relationship is held back):
\* a relationship handed to sub_tx.create never has, at an end whose merge
\* hit a uniqueness conflict, the in-memory node that failed to merge; the
\* end is the node read from the store.
C30_ConflictEndsReplaced ==
    \A k \in 1..Len(submitted) :
        (submitted[k] <= Len(filtered_rels) /\ submitted[k] <= Len(filtered_src))
           => \A side \in Sides :
                 Original(submitted[k])[side] \in constraint_failed_nodes
                    => /\ filtered_rels[submitted[k]][side][1] = "db"
                       /\ filtered_rels[submitted[k]][side] # Original(submitted[k])[side]

====
